---- MODULE Spec2Model ----
(***************************************************************************)
(* A model of the tripwired decision pipeline: the activity classifier     *)
(* (ActivityEngine), the intent core (IntentCore), the safety gate         *)
(* (SafetyGate) and the orchestrating Pipeline.                            *)
(*                                                                         *)
(* Conventions.                                                            *)
(*  - Times are integer milliseconds, as Date.now() and event timestamps.  *)
(*    A nullable time (number | null) is NoTime (-1) when null.            *)
(*  - A nullable object is Null when null.                                 *)
(*  - Confidence is an integer number of ConfUnit-ths (1.0 = ConfUnit =    *)
(*    10^7), so that CONFIDENCE_DECAY_RATE (0.0001 per second) is exactly  *)
(*    one unit per elapsed millisecond.                                    *)
(*  - The health score is an integer number of hundredths (1.0 = 100).     *)
(*  - Ratios of the source (tokens per minute, means of intervals, the     *)
(*    repetition ratio) are compared by cross-multiplication.              *)
(*  - The SHA-256 hasher is the sequence of the records folded into it;    *)
(*    the digest is taken to be injective in that sequence.                *)
(***************************************************************************)
EXTENDS Integers, Sequences, FiniteSets, TLC

VARIABLES
    clock,           \* the platform clock, Date.now()
    activityEngine,  \* Pipeline.activityEngine / a standalone ActivityEngine
    intentCore,      \* Pipeline.intentCore / a standalone IntentCore
    safetyGate,      \* Pipeline.safetyGate (SafetyGate.state) / a standalone gate
    events,          \* Pipeline.events: the telemetry log
    hasher,          \* Pipeline.hasher: records folded, and whether digest() was called
    ret,             \* the last call: operation, arguments, return value
    twin,            \* a second, independent Pipeline instance
    steps,           \* number of calls made so far (bounds the exploration)
    faults,          \* number of injected component faults so far
    tripAt           \* history: when evaluate last returned RUNAWAY_/LOOP_DETECTED

vars ==
    <<clock, activityEngine, intentCore, safetyGate, events, hasher, ret, twin, steps,
      faults, tripAt>>

----------------------------------------------------------------------------
(* Representation *)

Null == [null |-> TRUE]
NoTime == -1
NoHash == ""
NoVeto == "NONE"
ConfUnit == 10000000

----------------------------------------------------------------------------
(* core/contracts.ts *)

SOFT_SUSPEND == 60
HARD_STOP == 30
RECOVERY_RATE == 1
RECOVERY_CAP == 80
DEGRADED_BELOW == 80
INITIAL_SCORE == 100

MAX_TOKENS_PER_MINUTE == 50000
MAX_TOOL_CALLS_PER_MINUTE == 60
\* LOOP_SIMILARITY_THRESHOLD = 0.9 = LOOP_SIMILARITY_NUM / LOOP_SIMILARITY_DEN
LOOP_SIMILARITY_NUM == 9
LOOP_SIMILARITY_DEN == 10
LOOP_WINDOW_SIZE == 5
COOLDOWN_DURATION_MS == 60000
\* TEMPO_COMPRESSION_RATIO = 0.3 = TEMPO_RATIO_NUM / TEMPO_RATIO_DEN
TEMPO_RATIO_NUM == 3
TEMPO_RATIO_DEN == 10
SOFT_ANOMALY_SEVERITY == 2
HARD_ANOMALY_SEVERITY == 10

MIN_STATE_DURATION_MS == 10000
CRITICAL_EXIT_MULTIPLIER == 3
INTENSITY_LOW_THRESHOLD == 5000
INTENSITY_HIGH_THRESHOLD == 30000
EVENT_BUFFER_SIZE == 100

\* INTENT_CORE_CONFIG.CONFIDENCE_MINIMUM = 0.2, in confidence units
INTENT_CONFIDENCE_MINIMUM == 2000000
\* CONFIDENCE_DECAY_RATE = 0.0001 per second = 1 confidence unit per ms
CONFIDENCE_DECAY_PER_MS == 1
\* CALIBRATION_CONFIG.FACTOR = 1.0
CALIBRATION_FACTOR == 1
\* CALIBRATION_CONFIG.CONFIDENCE_MINIMUM (a getter)
CONFIDENCE_MINIMUM == INTENT_CONFIDENCE_MINIMUM \div CALIBRATION_FACTOR

----------------------------------------------------------------------------
(* Array helpers *)

RECURSIVE SumSeq(_)
SumSeq(s) == IF s = <<>> THEN 0 ELSE Head(s) + SumSeq(Tail(s))

\* s.slice(-n)
LastN(s, n) == IF Len(s) <= n THEN s ELSE SubSeq(s, Len(s) - n + 1, Len(s))

\* s.slice(0, -n)
DropLastN(s, n) == IF Len(s) <= n THEN <<>> ELSE SubSeq(s, 1, Len(s) - n)

\* s.slice(-m, -n), m > n
SliceBack(s, m, n) == DropLastN(LastN(s, m), n)

\* push onto a FIFO of capacity cap: shift() when the length exceeds cap
PushBounded(s, x, cap) ==
    LET t == Append(s, x) IN IF Len(t) > cap THEN Tail(t) ELSE t

Max(a, b) == IF a >= b THEN a ELSE b
Min(a, b) == IF a <= b THEN a ELSE b

SeqRange(s) == {s[i] : i \in 1..Len(s)}

----------------------------------------------------------------------------
(* ActivityEngine: activity-engine/engine.ts                                *)
(* An ActivityState's reason is kept as the text passed to computeState;    *)
(* the ": intensity=..., mode=..." the source appends repeats two fields.   *)

CriticalModes == {"LOOPING", "RUNAWAY"}

ActivityEngine_init == [currentState |-> Null, eventBuffer |-> <<>>, outputHashes |-> <<>>]

updateBuffer(ae, event) ==
    [ae EXCEPT
        !.eventBuffer = PushBounded(ae.eventBuffer, event, EVENT_BUFFER_SIZE),
        !.outputHashes = IF event.outputHash # NoHash
                         THEN PushBounded(ae.outputHashes, event.outputHash, LOOP_WINDOW_SIZE)
                         ELSE ae.outputHashes]

TokenCounts(recent) == [i \in 1..Len(recent) |-> recent[i].tokenCount]

\* tokensPerMinute = timeSpan > 0 ? (totalTokens / timeSpan) * 60000 : totalTokens,
\* compared with the thresholds (multiples of 1000) as
\* totalTokens * 60000 < th * timeSpan, both sides divided by 1000
intensityOf(totalTokens, timeSpan) ==
    IF timeSpan > 0
    THEN IF totalTokens * 60 < (INTENSITY_LOW_THRESHOLD \div 1000) * timeSpan THEN "LOW"
         ELSE IF totalTokens * 60 > (INTENSITY_HIGH_THRESHOLD \div 1000) * timeSpan THEN "HIGH"
         ELSE "NORMAL"
    ELSE IF totalTokens < INTENSITY_LOW_THRESHOLD THEN "LOW"
         ELSE IF totalTokens > INTENSITY_HIGH_THRESHOLD THEN "HIGH"
         ELSE "NORMAL"

intensityOfRecent(recent) ==
    intensityOf(SumSeq(TokenCounts(recent)),
                IF Len(recent) > 1
                THEN recent[Len(recent)].timestamp - recent[1].timestamp
                ELSE 60000)

computeIntensity(ae) ==
    IF Len(ae.eventBuffer) < 3 THEN "NORMAL"
    ELSE intensityOfRecent(LastN(ae.eventBuffer, 10))

\* repetitionRatio = 1 - uniqueHashes/recent.length >= LOOP_SIMILARITY_THRESHOLD
repetitionReached(uniqueHashes, length) ==
    (length - uniqueHashes) * LOOP_SIMILARITY_DEN >= LOOP_SIMILARITY_NUM * length

isLooping(ae) ==
    IF Len(ae.outputHashes) < LOOP_WINDOW_SIZE THEN FALSE
    ELSE repetitionReached(Cardinality(SeqRange(LastN(ae.outputHashes, LOOP_WINDOW_SIZE))),
                           Len(LastN(ae.outputHashes, LOOP_WINDOW_SIZE)))

computeIntervals(ae) ==
    [i \in 1..(Len(ae.eventBuffer) - 1) |->
        ae.eventBuffer[i + 1].timestamp - ae.eventBuffer[i].timestamp]

\* recentMean < earlierMean * TEMPO_COMPRESSION_RATIO, both sequences non-empty
tempoCompressed(recent, earlier) ==
    SumSeq(recent) * Len(earlier) * TEMPO_RATIO_DEN
        < SumSeq(earlier) * TEMPO_RATIO_NUM * Len(recent)

runawayIntervals(intervals) ==
    IF Len(intervals) < 4 THEN FALSE
    ELSE IF Len(DropLastN(intervals, 3)) = 0 THEN FALSE
    ELSE tempoCompressed(LastN(intervals, 3), DropLastN(intervals, 3))

\* isRunaway without the test of the intensity
isRunawayAnyIntensity(ae, intensity) ==
    IF Len(ae.eventBuffer) < 6 THEN FALSE
    ELSE runawayIntervals(computeIntervals(ae))

\* isRunaway that never detects
isRunawayOff(ae, intensity) == FALSE

isRunaway(ae, intensity) ==
    IF Len(ae.eventBuffer) < 6 \/ intensity # "HIGH" THEN FALSE
    ELSE runawayIntervals(computeIntervals(ae))

isIdle(ae, clk) ==
    IF Len(ae.eventBuffer) = 0 THEN TRUE
    ELSE clk - ae.eventBuffer[Len(ae.eventBuffer)].timestamp > 30000

computeMode(ae, intensity, clk) ==
    IF isLooping(ae) THEN "LOOPING"
    ELSE IF isRunaway(ae, intensity) THEN "RUNAWAY"
    ELSE IF isIdle(ae, clk) THEN "IDLE"
    ELSE "WORKING"

stateOf(ae, intensity, reason, clk) ==
    [intensity |-> intensity, mode |-> computeMode(ae, intensity, clk),
     reason |-> reason, since |-> clk]

computeState(ae, reason, clk) == stateOf(ae, computeIntensity(ae), reason, clk)

\* shouldTransition without the extended duration for leaving a critical mode
shouldTransitionNoCriticalHold(ae, candidate, clk) ==
    IF ae.currentState = Null THEN TRUE
    ELSE IF clk - ae.currentState.since < MIN_STATE_DURATION_MS THEN FALSE
    ELSE \/ ae.currentState.intensity # candidate.intensity
         \/ ae.currentState.mode # candidate.mode

\* shouldTransition without the minimum duration of a state
shouldTransitionNoMinDuration(ae, candidate, clk) ==
    IF ae.currentState = Null THEN TRUE
    ELSE IF /\ ae.currentState.mode \in CriticalModes
            /\ candidate.mode \notin CriticalModes
            /\ clk - ae.currentState.since < MIN_STATE_DURATION_MS * CRITICAL_EXIT_MULTIPLIER
         THEN FALSE
    ELSE \/ ae.currentState.intensity # candidate.intensity
         \/ ae.currentState.mode # candidate.mode

shouldTransition(ae, candidate, clk) ==
    IF ae.currentState = Null THEN TRUE
    \* elapsed = clk - currentState.since
    ELSE IF clk - ae.currentState.since < MIN_STATE_DURATION_MS THEN FALSE
    ELSE IF /\ ae.currentState.mode \in CriticalModes
            /\ candidate.mode \notin CriticalModes
            /\ clk - ae.currentState.since < MIN_STATE_DURATION_MS * CRITICAL_EXIT_MULTIPLIER
         THEN FALSE
    ELSE \/ ae.currentState.intensity # candidate.intensity
         \/ ae.currentState.mode # candidate.mode

transitionTo(ae, candidateState, clk) ==
    IF shouldTransition(ae, candidateState, clk)
    THEN [ae EXCEPT !.currentState = candidateState]
    ELSE ae

\* process(event) once the event is buffered
processBuffered(ae, clk) ==
    IF ae.currentState = Null
    THEN [ae EXCEPT !.currentState = computeState(ae, "Initial state computation", clk)]
    ELSE transitionTo(ae, computeState(ae, "Periodic recomputation", clk), clk)

\* process(event): the engine after the call; the value returned is its currentState
ActivityEngine_process(ae, event, clk) == processBuffered(updateBuffer(ae, event), clk)

ActivityEngine_reset == ActivityEngine_init

----------------------------------------------------------------------------
(* IntentCore: intent-core/core.ts                                          *)
(* An intent's reason is <<text, n>>: the text followed by n " (decayed)".  *)

HISTORY_SIZE == 20

IntentCore_init == [lastIntent |-> Null, tokenHistory |-> <<>>]

IntentCore_update(ic, event) ==
    [ic EXCEPT !.tokenHistory = PushBounded(ic.tokenHistory, event.tokenCount, HISTORY_SIZE)]

\* trend = (recentAvg - earlierAvg) / earlierAvg against +-0.5, from the sums
trendOf(rs, rn, es, en) ==
    IF en = 0 THEN "FLAT"
    ELSE IF es = 0 THEN "FLAT"
    ELSE IF 2 * rs * en > 3 * es * rn THEN "UP"
    ELSE IF 2 * rs * en < es * rn THEN "DOWN"
    ELSE "FLAT"

\* The side of calculateTokenTrend() the caller tests: "UP" when trend > 0.5,
\* "DOWN" when trend < -0.5, "FLAT" otherwise.
calculateTokenTrend(ic) ==
    IF Len(ic.tokenHistory) < 5 THEN "FLAT"
    ELSE trendOf(SumSeq(LastN(ic.tokenHistory, 3)), Len(LastN(ic.tokenHistory, 3)),
                 SumSeq(SliceBack(ic.tokenHistory, 6, 3)), Len(SliceBack(ic.tokenHistory, 6, 3)))

baseConfidence(state) ==
    CASE state.intensity = "LOW" -> 8000000
      [] state.intensity = "NORMAL" -> 6000000
      [] state.intensity = "HIGH" -> 3000000
      [] OTHER -> 5000000

adjustConfidence(base, longEnough, trend) ==
    IF longEnough /\ trend = "UP" THEN (base * 7) \div 10
    ELSE IF longEnough /\ trend = "DOWN" THEN (base * 11) \div 10
    ELSE base

calculateConfidence(ic, state) ==
    Max(1000000,
        Min(adjustConfidence(baseConfidence(state), Len(ic.tokenHistory) >= 5,
                             calculateTokenTrend(ic)),
            ConfUnit))

\* generateIntent that tests HIGH intensity before the critical modes
generateIntentHighFirst(ic, state, timestamp) ==
    IF state.intensity = "HIGH"
    THEN [intent |-> "PAUSE", confidence |-> 7000000,
          reason |-> <<"HIGH intensity - approaching resource limits", 0>>,
          timestamp |-> timestamp]
    ELSE IF state.mode = "RUNAWAY"
    THEN [intent |-> "STOP", confidence |-> ConfUnit,
          reason |-> <<"RUNAWAY mode detected - uncontrolled activity", 0>>,
          timestamp |-> timestamp]
    ELSE IF state.mode = "LOOPING"
    THEN [intent |-> "STOP", confidence |-> 9000000,
          reason |-> <<"LOOPING mode detected - repetitive behavior", 0>>,
          timestamp |-> timestamp]
    ELSE IF state.mode = "IDLE"
    THEN [intent |-> "CONTINUE", confidence |-> 3000000,
          reason |-> <<"IDLE mode - waiting for activity", 0>>,
          timestamp |-> timestamp]
    ELSE [intent |-> "CONTINUE", confidence |-> calculateConfidence(ic, state),
          reason |-> <<"WORKING mode: intensity=", 0>>,
          timestamp |-> timestamp]

generateIntent(ic, state, timestamp) ==
    IF state.mode = "RUNAWAY"
    THEN [intent |-> "STOP", confidence |-> ConfUnit,
          reason |-> <<"RUNAWAY mode detected - uncontrolled activity", 0>>,
          timestamp |-> timestamp]
    ELSE IF state.mode = "LOOPING"
    THEN [intent |-> "STOP", confidence |-> 9000000,
          reason |-> <<"LOOPING mode detected - repetitive behavior", 0>>,
          timestamp |-> timestamp]
    ELSE IF state.intensity = "HIGH"
    THEN [intent |-> "PAUSE", confidence |-> 7000000,
          reason |-> <<"HIGH intensity - approaching resource limits", 0>>,
          timestamp |-> timestamp]
    ELSE IF state.mode = "IDLE"
    THEN [intent |-> "CONTINUE", confidence |-> 3000000,
          reason |-> <<"IDLE mode - waiting for activity", 0>>,
          timestamp |-> timestamp]
    ELSE [intent |-> "CONTINUE", confidence |-> calculateConfidence(ic, state),
          reason |-> <<"WORKING mode: intensity=", 0>>,
          timestamp |-> timestamp]

applyDecay(intent, now) ==
    [intent EXCEPT
        \* elapsed = now - intent.timestamp
        !.confidence = Max(0, intent.confidence
                                - (now - intent.timestamp) * CONFIDENCE_DECAY_PER_MS),
        !.reason = <<intent.reason[1], intent.reason[2] + 1>>]

\* shouldInvalidate that invalidates any stored intent in a critical mode
shouldInvalidateAnyIntent(intent, state) ==
    IF state.mode \in {"RUNAWAY", "LOOPING"} THEN TRUE
    ELSE IF state.intensity = "HIGH" /\ intent.confidence > 5000000 THEN TRUE
    ELSE FALSE

\* shouldInvalidate with the intensity rule alone
shouldInvalidateOnIntensity(intent, state) ==
    IF state.intensity = "HIGH" /\ intent.confidence > 5000000 THEN TRUE
    ELSE FALSE

\* shouldInvalidate that never invalidates
shouldInvalidateNever(intent, state) == FALSE

shouldInvalidate(intent, state) ==
    IF intent.intent = "CONTINUE" /\ state.mode \in {"RUNAWAY", "LOOPING"} THEN TRUE
    ELSE IF state.intensity = "HIGH" /\ intent.confidence > 5000000 THEN TRUE
    ELSE FALSE

createPause(timestamp, reason) ==
    [intent |-> "PAUSE", confidence |-> 5000000, reason |-> <<reason, 0>>,
     timestamp |-> timestamp]

\* decide(state) once the stored intent is decayed
decideDecayed(ic, decayed, state, now) ==
    IF decayed.confidence > 0
    THEN IF shouldInvalidate(decayed, state)
         THEN [ic EXCEPT !.lastIntent = createPause(now, "Invalidated: activity mode critical")]
         ELSE [ic EXCEPT !.lastIntent = decayed]
    ELSE [ic EXCEPT !.lastIntent = generateIntent(ic, state, now)]

\* decide(state): the core after the call; the value returned is its lastIntent
IntentCore_decide(ic, state, now) ==
    IF ic.lastIntent # Null /\ ic.lastIntent.intent # "PAUSE"
    THEN decideDecayed(ic, applyDecay(ic.lastIntent, now), state, now)
    ELSE [ic EXCEPT !.lastIntent = generateIntent(ic, state, now)]

IntentCore_reset == IntentCore_init

----------------------------------------------------------------------------
(* SafetyGate: safety-gate/engine.ts                                        *)
(* frequency.events and frequency.meanInterval are written and never read;  *)
(* of frequency only intervals is kept.                                     *)
(* A decision's reason is <<text, tag>>: "Veto: <tag>", the allowing text,  *)
(* or the pipeline's "SafetyGate error".                                    *)

createInitialState(now) ==
    [budget |-> [tokensUsed |-> 0, toolCalls |-> 0, windowStart |-> now],
     intervals |-> <<>>,
     lastEventTimestamp |-> NoTime,
     cooldownUntil |-> NoTime,
     health |-> [score |-> INITIAL_SCORE, status |-> "HEALTHY", lastAnomaly |-> NoTime,
                 anomalyCount |-> 0, errorStreak |-> 0]]

\* resetBudgetWindowIfNeeded that never resets
keepBudgetWindow(g, now) == g

resetBudgetWindowIfNeeded(g, now) ==
    \* elapsed = now - budget.windowStart
    IF now - g.budget.windowStart >= 60000
    THEN [g EXCEPT !.budget = [tokensUsed |-> 0, toolCalls |-> 0, windowStart |-> now]]
    ELSE g

getRemainingBudget(g) == Max(0, MAX_TOKENS_PER_MINUTE - g.budget.tokensUsed)

deriveHealthStatus(score) ==
    IF score < HARD_STOP THEN "STOPPED"
    ELSE IF score < SOFT_SUSPEND THEN "SUSPENDED"
    ELSE IF score < DEGRADED_BELOW THEN "DEGRADED"
    ELSE "HEALTHY"

\* checkSystemVeto without the confidence check
checkSystemVetoNoConfidence(g, intent, now) ==
    IF g.cooldownUntil # NoTime /\ now < g.cooldownUntil THEN "COOLDOWN_ACTIVE"
    ELSE IF g.health.status \in {"SUSPENDED", "STOPPED"} THEN "HEALTH_DEGRADED"
    ELSE NoVeto

\* checkSystemVeto without the health status check
checkSystemVetoNoStatus(g, intent, now) ==
    IF intent.confidence < CONFIDENCE_MINIMUM THEN "HEALTH_DEGRADED"
    ELSE IF g.cooldownUntil # NoTime /\ now < g.cooldownUntil THEN "COOLDOWN_ACTIVE"
    ELSE NoVeto

\* checkSystemVeto without the cooldown check
checkSystemVetoNoCooldown(g, intent, now) ==
    IF intent.confidence < CONFIDENCE_MINIMUM THEN "HEALTH_DEGRADED"
    ELSE IF g.health.status \in {"SUSPENDED", "STOPPED"} THEN "HEALTH_DEGRADED"
    ELSE NoVeto

checkSystemVeto(g, intent, now) ==
    IF intent.confidence < CONFIDENCE_MINIMUM THEN "HEALTH_DEGRADED"
    ELSE IF g.cooldownUntil # NoTime /\ now < g.cooldownUntil THEN "COOLDOWN_ACTIVE"
    ELSE IF g.health.status \in {"SUSPENDED", "STOPPED"} THEN "HEALTH_DEGRADED"
    ELSE NoVeto

isTempoCompressing(g) ==
    IF Len(g.intervals) < 4 THEN FALSE
    ELSE IF Len(SliceBack(g.intervals, 6, 3)) = 0 THEN FALSE
    ELSE tempoCompressed(LastN(g.intervals, 3), SliceBack(g.intervals, 6, 3))

\* a cooldown of twice COOLDOWN_DURATION_MS
enterLongCooldown(g, now) == [g EXCEPT !.cooldownUntil = now + 2 * COOLDOWN_DURATION_MS]

enterCooldown(g, now) == [g EXCEPT !.cooldownUntil = now + COOLDOWN_DURATION_MS]

\* checkBehavioralVeto without the LOOPING check
checkBehavioralVetoNoLoop(g, activityState, now) ==
    IF activityState.mode = "RUNAWAY"
    THEN [veto |-> "RUNAWAY_DETECTED", gate |-> [g EXCEPT !.cooldownUntil = now + COOLDOWN_DURATION_MS]]
    ELSE IF g.budget.toolCalls >= MAX_TOOL_CALLS_PER_MINUTE
    THEN [veto |-> "RATE_LIMIT_EXCEEDED", gate |-> g]
    ELSE [veto |-> NoVeto, gate |-> g]

\* checkBehavioralVeto: the veto it returns (NoVeto for null) and the gate it leaves
checkBehavioralVeto(g, activityState, now) ==
    IF activityState.mode = "RUNAWAY"
    THEN [veto |-> "RUNAWAY_DETECTED", gate |-> enterCooldown(g, now)]
    ELSE IF activityState.mode = "LOOPING"
    THEN [veto |-> "LOOP_DETECTED", gate |-> enterCooldown(g, now)]
    ELSE IF isTempoCompressing(g)
    THEN [veto |-> "RATE_LIMIT_EXCEEDED", gate |-> g]
    ELSE IF g.budget.toolCalls >= MAX_TOOL_CALLS_PER_MINUTE
    THEN [veto |-> "RATE_LIMIT_EXCEEDED", gate |-> g]
    ELSE [veto |-> NoVeto, gate |-> g]

\* checkBudget that never vetoes
checkBudgetOff(g) == NoVeto

\* checkBudget that vetoes only above the limit
checkBudgetStrict(g) ==
    IF g.budget.tokensUsed > MAX_TOKENS_PER_MINUTE THEN "TOKEN_BUDGET_EXCEEDED" ELSE NoVeto

checkBudget(g) ==
    IF g.budget.tokensUsed >= MAX_TOKENS_PER_MINUTE THEN "TOKEN_BUDGET_EXCEEDED" ELSE NoVeto

\* createRejection that leaves the vetoReason out
createRejectionUntagged(g, reason, timestamp) ==
    [allowed |-> FALSE, remainingBudget |-> Max(0, MAX_TOKENS_PER_MINUTE - g.budget.tokensUsed),
     reason |-> <<"Veto: ", reason>>, vetoReason |-> NoVeto, timestamp |-> timestamp]

createRejection(g, reason, timestamp) ==
    [allowed |-> FALSE, remainingBudget |-> getRemainingBudget(g),
     reason |-> <<"Veto: ", reason>>, vetoReason |-> reason, timestamp |-> timestamp]

createAllowance(g, timestamp) ==
    [allowed |-> TRUE, remainingBudget |-> getRemainingBudget(g),
     reason |-> <<"Allowed by SafetyGate: all checks passed", NoVeto>>,
     vetoReason |-> NoVeto, timestamp |-> timestamp]

\* evaluate, steps 2 and 3 and the allowing return, given the behavioral check's outcome
evaluateBudget(behavior, now) ==
    IF behavior.veto # NoVeto
    THEN [gate |-> behavior.gate, decision |-> createRejection(behavior.gate, behavior.veto, now)]
    ELSE IF checkBudget(behavior.gate) # NoVeto
    THEN [gate |-> behavior.gate,
          decision |-> createRejection(behavior.gate, checkBudget(behavior.gate), now)]
    ELSE [gate |-> behavior.gate, decision |-> createAllowance(behavior.gate, now)]

\* evaluate whose system precheck starts a cooldown for a critical mode
evaluateInWindowCooling(g, intent, activityState, now) ==
    IF checkSystemVeto(g, intent, now) # NoVeto
    THEN [gate |-> IF activityState.mode \in {"RUNAWAY", "LOOPING"}
                   THEN enterCooldown(g, now) ELSE g,
          decision |-> createRejection(g, checkSystemVeto(g, intent, now), now)]
    ELSE evaluateBudget(checkBehavioralVeto(g, activityState, now), now)

\* evaluate, steps 1 to 3, once the budget window is reset if needed
evaluateInWindow(g, intent, activityState, now) ==
    IF checkSystemVeto(g, intent, now) # NoVeto
    THEN [gate |-> g, decision |-> createRejection(g, checkSystemVeto(g, intent, now), now)]
    ELSE evaluateBudget(checkBehavioralVeto(g, activityState, now), now)

\* evaluate(intent, activityState): the gate after the call and the decision returned
SafetyGate_evaluate(g, intent, activityState, now) ==
    evaluateInWindow(resetBudgetWindowIfNeeded(g, now), intent, activityState, now)

recordInWindow(g, tokensUsed, toolCalls, now) ==
    [g EXCEPT !.budget.tokensUsed = @ + tokensUsed,
              !.budget.toolCalls = @ + toolCalls,
              !.intervals = IF g.lastEventTimestamp # NoTime
                            THEN Append(@, now - g.lastEventTimestamp)
                            ELSE @,
              !.lastEventTimestamp = now]

SafetyGate_recordEvent(g, tokensUsed, toolCalls, now) ==
    recordInWindow(resetBudgetWindowIfNeeded(g, now), tokensUsed, toolCalls, now)

\* the health after an anomaly with the status left as it was
healthAfterStaleStatus(health, newScore, now) ==
    [score |-> newScore,
     status |-> health.status,
     lastAnomaly |-> now,
     anomalyCount |-> health.anomalyCount + 1,
     errorStreak |-> health.errorStreak + 1]

healthAfter(health, newScore, now) ==
    [score |-> newScore,
     status |-> deriveHealthStatus(newScore),
     lastAnomaly |-> now,
     anomalyCount |-> health.anomalyCount + 1,
     errorStreak |-> health.errorStreak + 1]

recordAnomaly(g, severity, now) ==
    [g EXCEPT !.health = healthAfter(g.health, Max(0, g.health.score - severity), now)]

partialAnomaly(g, result, now) ==
    IF result.status = "PARTIAL" THEN recordAnomaly(g, SOFT_ANOMALY_SEVERITY, now) ELSE g

\* recordExecutionResult that ignores the decision
recordExecutionResultAnyDecision(g, result, decision, now) ==
    IF result.executed
    THEN partialAnomaly(IF result.latencyMs > 10000
                        THEN recordAnomaly(g, SOFT_ANOMALY_SEVERITY, now) ELSE g,
                        result, now)
    ELSE recordAnomaly(g, HARD_ANOMALY_SEVERITY, now)

recordExecutionResult(g, result, decision, now) ==
    IF result.executed
    THEN partialAnomaly(IF result.latencyMs > 10000
                        THEN recordAnomaly(g, SOFT_ANOMALY_SEVERITY, now) ELSE g,
                        result, now)
    ELSE IF decision.allowed
    THEN recordAnomaly(g, HARD_ANOMALY_SEVERITY, now)
    ELSE g

recovered(health, newScore) ==
    [health EXCEPT !.errorStreak = 0,
                   !.score = newScore,
                   !.status = deriveHealthStatus(newScore)]

\* tickRecovery without the RECOVERY_CAP
tickRecoveryUncapped(g, now) ==
    IF g.health.lastAnomaly # NoTime /\ now - g.health.lastAnomaly < 60000 THEN g
    ELSE [g EXCEPT !.health = recovered(g.health, g.health.score + RECOVERY_RATE)]

tickRecovery(g, now) ==
    \* timeSinceAnomaly = now - health.lastAnomaly
    IF g.health.lastAnomaly # NoTime /\ now - g.health.lastAnomaly < 60000 THEN g
    ELSE [g EXCEPT !.health = recovered(g.health,
                                        Min(RECOVERY_CAP, g.health.score + RECOVERY_RATE))]

SafetyGate_reset(now) == createInitialState(now)

----------------------------------------------------------------------------
(* Pipeline: runtime/pipeline.ts                                            *)
(* Within one process call every Date.now() reads the same value, now.      *)

\* What a stage can be made to do in one process call: a component that throws
\* is a fault of that name; the adapter executes, answers like DummyAdapter, or throws.
FaultKinds == {"none", "ActivityEngine", "IntentCore", "SafetyGate"}
AdapterBehaviours == {"execute", "dummy", "throw"}

\* new Pipeline(): the components and the pipeline's own fields
Pipeline_new(now) ==
    [activityEngine |-> ActivityEngine_init,
     intentCore |-> IntentCore_init,
     safetyGate |-> createInitialState(now),
     events |-> <<>>,
     hasher |-> [data |-> <<>>, finalized |-> FALSE]]

recordForHash(h, type, data) == [h EXCEPT !.data = Append(@, [type |-> type, data |-> data])]

pushEvent(log, event) == Append(log, event)

stateChanged(prev, curr) == prev.intensity # curr.intensity \/ prev.mode # curr.mode

\* ExecutionAdapter.execute(decision): DummyAdapter never executes
adapterExecute(adapter, now) ==
    IF adapter = "execute"
    THEN [executed |-> TRUE, status |-> "SUCCESS", tokensUsed |-> 0, latencyMs |-> 0,
          timestamp |-> now]
    ELSE [executed |-> FALSE, status |-> "BLOCKED", tokensUsed |-> 0, latencyMs |-> 0,
          timestamp |-> now]

\* the state the catch block of step 1 falls back to
defensiveState(lastState, now) ==
    IF lastState # Null THEN lastState
    ELSE [intensity |-> "HIGH", mode |-> "RUNAWAY", reason |-> "ActivityEngine error",
          since |-> now]

\* the head of process: the event is folded and logged
accepted(p, event) ==
    [p EXCEPT !.hasher = recordForHash(@, "event", event),
              !.events = pushEvent(@, [type |-> "AGENT_EVENT", event |-> event])]

\* Step 1 of process, ae being the engine after activityEngine.process(event)
classified(p, ae, now, fault) ==
    IF fault = "ActivityEngine"
    THEN [p EXCEPT !.events = pushEvent(@, [type |-> "ERROR", component |-> "ActivityEngine"])]
         @@ [state |-> defensiveState(p.activityEngine.currentState, now)]
    ELSE [p EXCEPT !.activityEngine = ae,
                   !.events = IF /\ p.activityEngine.currentState # Null
                                 /\ stateChanged(p.activityEngine.currentState, ae.currentState)
                              THEN pushEvent(@, [type |-> "STATE_CHANGE",
                                                 previous |-> p.activityEngine.currentState,
                                                 current |-> ae.currentState])
                              ELSE @]
         @@ [state |-> ae.currentState]

processStage1(p, event, now, fault) ==
    classified(p, ActivityEngine_process(p.activityEngine, event, now), now, fault)

\* Step 2 of process with a catch block that emits no ERROR record
intendedSilently(p, ic, now, fault) ==
    IF fault = "IntentCore"
    THEN p @@ [intent |-> [intent |-> "PAUSE", confidence |-> 0,
                           reason |-> <<"IntentCore error", 0>>, timestamp |-> now]]
    ELSE [p EXCEPT !.intentCore = ic,
                   !.hasher = [@ EXCEPT !.data = Append(@, [type |-> "intent",
                                                             data |-> ic.lastIntent])]]
         @@ [intent |-> ic.lastIntent]

\* Step 2 of process, ic being the core after update(event) and decide(state)
intended(p, ic, now, fault) ==
    IF fault = "IntentCore"
    THEN [p EXCEPT !.events = pushEvent(@, [type |-> "ERROR", component |-> "IntentCore"])]
         @@ [intent |-> [intent |-> "PAUSE", confidence |-> 0,
                         reason |-> <<"IntentCore error", 0>>, timestamp |-> now]]
    ELSE [p EXCEPT !.intentCore = ic,
                   !.hasher = recordForHash(@, "intent", ic.lastIntent)]
         @@ [intent |-> ic.lastIntent]

processStage2(p, event, now, fault) ==
    intended(p, IntentCore_decide(IntentCore_update(p.intentCore, event), p.state, now),
             now, fault)

\* Step 3 of process with a catch block that logs the synthetic decision as
\* an INTENT record before the ERROR record
gatedLoggingRejection(p, ev, event, now, fault) ==
    IF fault = "SafetyGate"
    THEN [p EXCEPT !.events = pushEvent(
                        pushEvent(@, [type |-> "INTENT", intent |-> p.intent,
                                      decision |-> [allowed |-> FALSE, remainingBudget |-> 0,
                                                    reason |-> <<"SafetyGate error", NoVeto>>,
                                                    vetoReason |-> NoVeto, timestamp |-> now]]),
                        [type |-> "ERROR", component |-> "SafetyGate"])]
         @@ [decision |-> [allowed |-> FALSE, remainingBudget |-> 0,
                           reason |-> <<"SafetyGate error", NoVeto>>,
                           vetoReason |-> NoVeto, timestamp |-> now]]
    ELSE [p EXCEPT !.safetyGate = SafetyGate_recordEvent(ev.gate, event.tokenCount,
                                                         event.toolCalls, now),
                   !.hasher = recordForHash(@, "decision", ev.decision),
                   !.events = pushEvent(@, [type |-> "INTENT", intent |-> p.intent,
                                            decision |-> ev.decision])]
         @@ [decision |-> ev.decision]

\* Step 3 of process, ev being what safetyGate.evaluate(intent, state) gave
\* (DriftMonitor.recordDecision and tick change nothing the pipeline reads)
gated(p, ev, event, now, fault) ==
    IF fault = "SafetyGate"
    THEN [p EXCEPT !.events = pushEvent(@, [type |-> "ERROR", component |-> "SafetyGate"])]
         @@ [decision |-> [allowed |-> FALSE, remainingBudget |-> 0,
                           reason |-> <<"SafetyGate error", NoVeto>>,
                           vetoReason |-> NoVeto, timestamp |-> now]]
    ELSE [p EXCEPT !.safetyGate = SafetyGate_recordEvent(ev.gate, event.tokenCount,
                                                         event.toolCalls, now),
                   !.hasher = recordForHash(@, "decision", ev.decision),
                   !.events = pushEvent(@, [type |-> "INTENT", intent |-> p.intent,
                                            decision |-> ev.decision])]
         @@ [decision |-> ev.decision]

\* the tail of step 3 for a gate that has recorded the event already
gatedRecorded(p, ev, now, fault) ==
    IF fault = "SafetyGate"
    THEN [p EXCEPT !.events = pushEvent(@, [type |-> "ERROR", component |-> "SafetyGate"])]
         @@ [decision |-> [allowed |-> FALSE, remainingBudget |-> 0,
                           reason |-> <<"SafetyGate error", NoVeto>>,
                           vetoReason |-> NoVeto, timestamp |-> now]]
    ELSE [p EXCEPT !.safetyGate = ev.gate,
                   !.hasher = recordForHash(@, "decision", ev.decision),
                   !.events = pushEvent(@, [type |-> "INTENT", intent |-> p.intent,
                                            decision |-> ev.decision])]
         @@ [decision |-> ev.decision]

\* Step 3 of process with recordEvent called before evaluate
processStage3RecordingFirst(p, event, now, fault) ==
    gatedRecorded(p,
                  SafetyGate_evaluate(
                      SafetyGate_recordEvent(p.safetyGate, event.tokenCount,
                                             event.toolCalls, now),
                      p.intent, p.state, now),
                  now, fault)

processStage3(p, event, now, fault) ==
    gated(p, SafetyGate_evaluate(p.safetyGate, p.intent, p.state, now), event, now, fault)

\* Step 4 of process without the test of decision.allowed
processStage4Unguarded(p, now, adapter) ==
    IF adapter = "throw"
    THEN [p EXCEPT !.events = Append(@, [type |-> "ERROR", component |-> "ExecutionAdapter"])]
         @@ [result |-> [executed |-> FALSE, status |-> "FAILED", tokensUsed |-> 0,
                         latencyMs |-> 0, timestamp |-> now],
             adapterCalled |-> TRUE]
    ELSE [p EXCEPT !.events = Append(@, [type |-> "EXECUTION",
                                         result |-> [executed |-> adapter = "execute",
                                                     status |-> IF adapter = "execute"
                                                                THEN "SUCCESS" ELSE "BLOCKED",
                                                     tokensUsed |-> 0, latencyMs |-> 0,
                                                     timestamp |-> now]])]
         @@ [result |-> [executed |-> adapter = "execute",
                         status |-> IF adapter = "execute" THEN "SUCCESS" ELSE "BLOCKED",
                         tokensUsed |-> 0, latencyMs |-> 0, timestamp |-> now],
             adapterCalled |-> TRUE]

\* step 4 followed by a report of the result to the gate
reportedToGate(q, now) ==
    [q EXCEPT !.safetyGate = recordExecutionResult(@, q.result, q.decision, now)]

\* processStage4 that feeds the execution result back to the gate itself
processStage4Reporting(p, now, adapter) ==
    reportedToGate(
        IF ~p.decision.allowed
        THEN [p EXCEPT !.hasher = recordForHash(@, "result",
                            [executed |-> FALSE, status |-> "BLOCKED", tokensUsed |-> 0,
                             latencyMs |-> 0, timestamp |-> now]),
                       !.events = pushEvent(@, [type |-> "EXECUTION", result |->
                            [executed |-> FALSE, status |-> "BLOCKED", tokensUsed |-> 0,
                             latencyMs |-> 0, timestamp |-> now]])]
             @@ [result |-> [executed |-> FALSE, status |-> "BLOCKED", tokensUsed |-> 0,
                             latencyMs |-> 0, timestamp |-> now],
                 adapterCalled |-> FALSE]
        ELSE IF adapter = "throw"
        THEN [p EXCEPT !.events = pushEvent(@, [type |-> "ERROR",
                                                component |-> "ExecutionAdapter"])]
             @@ [result |-> [executed |-> FALSE, status |-> "FAILED", tokensUsed |-> 0,
                             latencyMs |-> 0, timestamp |-> now],
                 adapterCalled |-> TRUE]
        ELSE [p EXCEPT !.hasher = recordForHash(@, "result", adapterExecute(adapter, now)),
                       !.events = pushEvent(@, [type |-> "EXECUTION",
                                                result |-> adapterExecute(adapter, now)])]
             @@ [result |-> adapterExecute(adapter, now), adapterCalled |-> TRUE],
        now)

\* Step 4 of process: the adapter is called only when the decision allows
processStage4(p, now, adapter) ==
    IF ~p.decision.allowed
    THEN [p EXCEPT !.hasher = recordForHash(@, "result",
                        [executed |-> FALSE, status |-> "BLOCKED", tokensUsed |-> 0,
                         latencyMs |-> 0, timestamp |-> now]),
                   !.events = pushEvent(@, [type |-> "EXECUTION", result |->
                        [executed |-> FALSE, status |-> "BLOCKED", tokensUsed |-> 0,
                         latencyMs |-> 0, timestamp |-> now]])]
         @@ [result |-> [executed |-> FALSE, status |-> "BLOCKED", tokensUsed |-> 0,
                         latencyMs |-> 0, timestamp |-> now],
             adapterCalled |-> FALSE]
    ELSE IF adapter = "throw"
    THEN [p EXCEPT !.events = pushEvent(@, [type |-> "ERROR", component |-> "ExecutionAdapter"])]
         @@ [result |-> [executed |-> FALSE, status |-> "FAILED", tokensUsed |-> 0,
                         latencyMs |-> 0, timestamp |-> now],
             adapterCalled |-> TRUE]
    ELSE [p EXCEPT !.hasher = recordForHash(@, "result", adapterExecute(adapter, now)),
                   !.events = pushEvent(@, [type |-> "EXECUTION",
                                            result |-> adapterExecute(adapter, now)])]
         @@ [result |-> adapterExecute(adapter, now), adapterCalled |-> TRUE]

\* step 4 suspends the call only at await adapter.execute(decision), in the
\* branch of an allowed decision
suspendsAlways(decision) == TRUE

suspendsOnExecute(decision) == decision.allowed

\* the head and steps 1 to 3 of process, which hold no await
processSynchronously(p, event, now) ==
    processStage3(
        processStage2(
            processStage1(accepted(p, event), event, now, "none"),
            event, now, "none"),
        event, now, "none")

PipelineFields == {"activityEngine", "intentCore", "safetyGate", "events", "hasher"}

\* what process leaves (pipeline) and returns (out), p carrying both
returned(p) ==
    [pipeline |-> [f \in PipelineFields |-> p[f]],
     out |-> [threw |-> FALSE, state |-> p.state, intent |-> p.intent,
              decision |-> p.decision, result |-> p.result,
              adapterCalled |-> p.adapterCalled]]

\* process(event); a call on a finalized hasher throws before any stage runs
Pipeline_process(p, event, now, fault, adapter) ==
    IF p.hasher.finalized
    THEN [pipeline |-> p, out |-> [threw |-> TRUE]]
    ELSE returned(
            processStage4(
                processStage3(
                    processStage2(
                        processStage1(accepted(p, event), event, now, fault),
                        event, now, fault),
                    event, now, fault),
                now, adapter))

\* run(events), every process call of the loop reading the clock at now
RECURSIVE runFrom(_, _, _, _)
runNext(r, rest, now, adapter) ==
    IF r.out.threw THEN [pipeline |-> r.pipeline, threw |-> TRUE]
    ELSE runFrom(r.pipeline, rest, now, adapter)

runFrom(p, evs, now, adapter) ==
    IF evs = <<>> THEN [pipeline |-> p, threw |-> FALSE]
    ELSE runNext(Pipeline_process(p, Head(evs), now, "none", adapter), Tail(evs), now, adapter)

\* a digest taken from a copy of the hasher, which stays open
digestedOfCopy(r) ==
    IF r.threw \/ r.pipeline.hasher.finalized
    THEN [pipeline |-> r.pipeline, out |-> [threw |-> TRUE]]
    ELSE [pipeline |-> r.pipeline,
          out |-> [threw |-> FALSE, events |-> r.pipeline.events,
                   hash |-> r.pipeline.hasher.data]]

\* hasher.digest('hex') throws on a hasher that is already finalized
digested(r) ==
    IF r.threw \/ r.pipeline.hasher.finalized
    THEN [pipeline |-> r.pipeline, out |-> [threw |-> TRUE]]
    ELSE [pipeline |-> [r.pipeline EXCEPT !.hasher.finalized = TRUE],
          out |-> [threw |-> FALSE, events |-> r.pipeline.events,
                   hash |-> r.pipeline.hasher.data]]

Pipeline_run(p, evs, now, adapter) == digested(runFrom(p, evs, now, adapter))

\* recordExecution(result, decision?): a missing decision defaults to an
\* allowed one
Pipeline_recordExecution(g, result, given, decision, now) ==
    recordExecutionResult(g, result,
                          IF given THEN decision
                          ELSE [allowed |-> TRUE, remainingBudget |-> 0,
                                reason |-> <<"External execution", NoVeto>>,
                                vetoReason |-> NoVeto, timestamp |-> now],
                          now)

\* reset() that leaves the IntentCore as it is
Pipeline_resetKeepingIntent(p, now) ==
    [activityEngine |-> ActivityEngine_reset,
     intentCore |-> p.intentCore,
     safetyGate |-> SafetyGate_reset(now),
     events |-> <<>>,
     hasher |-> [data |-> <<>>, finalized |-> FALSE]]

\* reset()
Pipeline_reset(p, now) ==
    [activityEngine |-> ActivityEngine_reset,
     intentCore |-> IntentCore_reset,
     safetyGate |-> SafetyGate_reset(now),
     events |-> <<>>,
     hasher |-> [data |-> <<>>, finalized |-> FALSE]]

----------------------------------------------------------------------------
(* Bounds and inputs *)

MaxEvents == 4
MaxFaults == 1
MaxGateSteps == 5
MaxEngineEvents == 7

\* clock advance between two calls on a pipeline (ms)
Delays == {5000, 60000}

\* the events offered to a pipeline, stamped with the clock when offered
EventKinds ==
    { [tokenCount |-> 100, toolCalls |-> 1, outputHash |-> NoHash],
      [tokenCount |-> 20000, toolCalls |-> 1, outputHash |-> NoHash],
      [tokenCount |-> 100, toolCalls |-> 30, outputHash |-> "H"] }

\* what the adapter of the pipeline under test does when called
SpecAdapters == {"execute", "throw"}

MakeEvent(kind, timestamp) ==
    [timestamp |-> timestamp, tokenCount |-> kind.tokenCount,
     toolCalls |-> kind.toolCalls, outputHash |-> kind.outputHash]

\* the event lists handed to run()
RunLists == {<<>>} \cup {<<kind>> : kind \in EventKinds}

StampAll(list, timestamp) == [i \in 1..Len(list) |-> MakeEvent(list[i], timestamp)]

\* inputs of a stand-alone SafetyGate
GateDelays == {1000, 60000}
GateIntents ==
    { [intent |-> "CONTINUE", confidence |-> 6000000],
      [intent |-> "STOP", confidence |-> ConfUnit],
      [intent |-> "PAUSE", confidence |-> 1000000] }
GateModes == {"IDLE", "WORKING", "LOOPING", "RUNAWAY"}
GateLoads == { [tokensUsed |-> 50000, toolCalls |-> 1], [tokensUsed |-> 100, toolCalls |-> 60] }
GateSeverities == {HARD_ANOMALY_SEVERITY, 45}
GateResults ==
    { [executed |-> TRUE, status |-> "SUCCESS", latencyMs |-> 0],
      [executed |-> TRUE, status |-> "PARTIAL", latencyMs |-> 20000],
      [executed |-> FALSE, status |-> "FAILED", latencyMs |-> 0] }

\* inputs of a gate driven event by event: an arrival is evaluated and then
\* recorded dt after the previous call; a probe is an evaluate call alone
MaxStreamSteps == 7
StreamIntent == [intent |-> "CONTINUE", confidence |-> 6000000]
StreamArrivals ==
    { [dt |-> 1000, tokensUsed |-> 10000, toolCalls |-> 1],
      [dt |-> 60000, tokensUsed |-> 100, toolCalls |-> 1],
      [dt |-> 1000, tokensUsed |-> 100, toolCalls |-> 30] }
StreamProbes == { [dt |-> 0, mode |-> "RUNAWAY"], [dt |-> 60000, mode |-> "WORKING"] }

\* inputs of a gate whose health is driven by anomalies, execution results
\* and recovery ticks
MaxHealthSteps == 7
HealthSeverities == {SOFT_ANOMALY_SEVERITY, HARD_ANOMALY_SEVERITY, 45}
HealthDelays == {1000, 60000}

\* execution results reported to a gate, with and without an allowing decision
MaxReportSteps == 4
ExecResults ==
    { [executed |-> TRUE, status |-> "SUCCESS", latencyMs |-> 50],
      [executed |-> TRUE, status |-> "SUCCESS", latencyMs |-> 20000],
      [executed |-> TRUE, status |-> "PARTIAL", latencyMs |-> 50],
      [executed |-> TRUE, status |-> "PARTIAL", latencyMs |-> 20000],
      [executed |-> FALSE, status |-> "FAILED", latencyMs |-> 0],
      [executed |-> FALSE, status |-> "BLOCKED", latencyMs |-> 0],
      [executed |-> FALSE, status |-> "PARTIAL", latencyMs |-> 20000] }

\* a pipeline fed events of 5000 tokens, each stamped with the clock, 5 s or
\* 500 ms after the previous one
MaxBurstEvents == 10
BurstGaps == {5000, 500}
BurstEvent(timestamp) ==
    [timestamp |-> timestamp, tokenCount |-> 5000, toolCalls |-> 1, outputHash |-> NoHash]

\* inputs of a stand-alone IntentCore: token counts recorded before the first
\* decision, then decisions on any activity state, 5 s or 10 000 s apart
MaxCoreUpdates == 5
MaxCoreSteps == 3
CoreTokens == {100, 20000}
CoreDelays == {5000, 10000000}
CoreStates ==
    { [intensity |-> "LOW", mode |-> "WORKING"],
      [intensity |-> "NORMAL", mode |-> "WORKING"],
      [intensity |-> "HIGH", mode |-> "WORKING"],
      [intensity |-> "NORMAL", mode |-> "IDLE"],
      [intensity |-> "NORMAL", mode |-> "LOOPING"],
      [intensity |-> "HIGH", mode |-> "RUNAWAY"] }

\* the number of events fed to a classifier between lulls
MaxLullEvents == 6

\* the number of process calls started on a pipeline without awaiting them
MaxOverlapCalls == 3

\* clock advance before a call is started
OverlapDelays == {0, 5000}

\* the time an adapter takes to settle (ms)
AdapterLatency == 1000

\* the number of events of a run that is replayed after reset()
MaxReplayEvents == 3

\* inputs of a stand-alone ActivityEngine with an injected clock: an event is
\* stamped lag ms before the clock reading of the call that processes it
EngineGaps == {4000, 20000}
EngineKinds ==
    { [tokenCount |-> 20000, outputHash |-> NoHash, lag |-> 0],
      [tokenCount |-> 100, outputHash |-> "H", lag |-> 0],
      [tokenCount |-> 100, outputHash |-> "H", lag |-> 40000] }

----------------------------------------------------------------------------
(* The pipeline as a state machine *)

Self ==
    [activityEngine |-> activityEngine, intentCore |-> intentCore,
     safetyGate |-> safetyGate, events |-> events, hasher |-> hasher]

Install(p) ==
    /\ activityEngine' = p.activityEngine
    /\ intentCore' = p.intentCore
    /\ safetyGate' = p.safetyGate
    /\ events' = p.events
    /\ hasher' = p.hasher

InitAt(p) ==
    /\ clock = 0
    /\ activityEngine = p.activityEngine
    /\ intentCore = p.intentCore
    /\ safetyGate = p.safetyGate
    /\ events = p.events
    /\ hasher = p.hasher
    /\ ret = [op |-> "new"]
    /\ twin = [pipeline |-> p, clock |-> 0, ret |-> [op |-> "new"]]
    /\ steps = 0
    /\ faults = 0
    /\ tripAt = NoTime

\* new Pipeline() at clock 0; the same reading constructs the second pipeline
Init == InitAt(Pipeline_new(0))

FaultCount(fault, adapter, out) ==
    IF out.threw THEN 0
    ELSE (IF fault # "none" THEN 1 ELSE 0)
         + (IF out.adapterCalled /\ adapter = "throw" THEN 1 ELSE 0)

\* a call that throws before any stage has no fault and no adapter to choose
Canonical(fault, adapter, out) ==
    IF out.threw THEN fault = "none" /\ adapter = "execute"
    ELSE out.adapterCalled \/ adapter = "execute"

\* await pipeline.process(event)
Process ==
    /\ steps < MaxEvents
    /\ \E dt \in Delays, kind \in EventKinds, fault \in FaultKinds, adapter \in SpecAdapters :
      \E r \in {Pipeline_process(Self, MakeEvent(kind, clock + dt), clock + dt, fault, adapter)} :
        /\ faults + FaultCount(fault, adapter, r.out) <= MaxFaults
        /\ Canonical(fault, adapter, r.out)
        /\ clock' = clock + dt
        /\ Install(r.pipeline)
        /\ ret' = [op |-> "process", now |-> clock + dt,
                   event |-> MakeEvent(kind, clock + dt), fault |-> fault,
                   adapter |-> adapter, logged |-> Len(events)] @@ r.out
        /\ steps' = steps + 1
        /\ faults' = faults + FaultCount(fault, adapter, r.out)
        /\ UNCHANGED <<twin, tripAt>>

\* await pipeline.run(events)
Run ==
    /\ steps < MaxEvents
    /\ \E dt \in Delays, list \in {l \in RunLists : steps + Len(l) < MaxEvents} :
      \E r \in {Pipeline_run(Self, StampAll(list, clock + dt), clock + dt, "execute")} :
        /\ clock' = clock + dt
        /\ Install(r.pipeline)
        /\ ret' = [op |-> "run", now |-> clock + dt, list |-> StampAll(list, clock + dt)]
                  @@ r.out
        /\ steps' = steps + 1 + Len(list)
        /\ UNCHANGED <<twin, faults, tripAt>>

\* pipeline.reset()
Reset ==
    /\ steps < MaxEvents
    /\ ret.op # "reset"
    /\ \E dt \in Delays :
        /\ clock' = clock + dt
        /\ Install(Pipeline_reset(Self, clock + dt))
        /\ ret' = [op |-> "reset", now |-> clock + dt]
        /\ steps' = steps + 1
        /\ UNCHANGED <<twin, faults, tripAt>>

Next == Process \/ Run \/ Reset

Spec == Init /\ [][Next]_vars

----------------------------------------------------------------------------
(* A stand-alone SafetyGate, driven by its host *)

GateFrame == UNCHANGED <<activityEngine, intentCore, events, hasher, twin, faults>>

\* time passes
Advance ==
    /\ steps < MaxGateSteps
    /\ \E dt \in GateDelays :
        /\ clock' = clock + dt
        /\ steps' = steps + 1
        /\ UNCHANGED <<safetyGate, ret, tripAt>>
        /\ GateFrame

\* gate.evaluate(intent, activityState); tripAt remembers the last call that
\* returned RUNAWAY_DETECTED or LOOP_DETECTED
Evaluate ==
    /\ steps < MaxGateSteps
    /\ \E intent \in GateIntents, mode \in GateModes :
      \E ev \in {SafetyGate_evaluate(safetyGate, intent,
                                      [intensity |-> "NORMAL", mode |-> mode], clock)} :
        /\ safetyGate' = ev.gate
        /\ ret' = [op |-> "evaluate", now |-> clock, intent |-> intent, mode |-> mode,
                   before |-> safetyGate, tripped |-> tripAt, decision |-> ev.decision]
        /\ tripAt' = IF ev.decision.vetoReason \in {"RUNAWAY_DETECTED", "LOOP_DETECTED"}
                     THEN clock ELSE tripAt
        /\ steps' = steps + 1
        /\ UNCHANGED clock
        /\ GateFrame

\* gate.recordEvent(tokensUsed, toolCalls), dt after the previous call
RecordEvent ==
    /\ steps < MaxGateSteps
    /\ \E dt \in GateDelays, load \in GateLoads :
        /\ clock' = clock + dt
        /\ safetyGate' = SafetyGate_recordEvent(safetyGate, load.tokensUsed, load.toolCalls,
                                                clock + dt)
        /\ ret' = [op |-> "recordEvent", now |-> clock + dt, load |-> load,
                   before |-> safetyGate]
        /\ steps' = steps + 1
        /\ UNCHANGED tripAt
        /\ GateFrame

\* gate.recordExecutionResult(result, decision)
RecordExecutionResult ==
    /\ steps < MaxGateSteps
    /\ \E result \in GateResults, allowed \in BOOLEAN :
        /\ safetyGate' = recordExecutionResult(safetyGate, result, [allowed |-> allowed], clock)
        /\ ret' = [op |-> "recordExecutionResult", now |-> clock, result |-> result,
                   allowed |-> allowed, before |-> safetyGate]
        /\ steps' = steps + 1
        /\ UNCHANGED <<clock, tripAt>>
        /\ GateFrame

\* gate.recordAnomaly(severity)
RecordAnomaly ==
    /\ steps < MaxGateSteps
    /\ \E severity \in GateSeverities :
        /\ safetyGate' = recordAnomaly(safetyGate, severity, clock)
        /\ ret' = [op |-> "recordAnomaly", now |-> clock, severity |-> severity,
                   before |-> safetyGate]
        /\ steps' = steps + 1
        /\ UNCHANGED <<clock, tripAt>>
        /\ GateFrame

\* gate.tickRecovery()
TickRecovery ==
    /\ steps < MaxGateSteps
    /\ safetyGate' = tickRecovery(safetyGate, clock)
    /\ ret' = [op |-> "tickRecovery", now |-> clock, before |-> safetyGate]
    /\ steps' = steps + 1
    /\ UNCHANGED <<clock, tripAt>>
    /\ GateFrame

\* gate.reset()
GateReset ==
    /\ steps < MaxGateSteps
    /\ ret.op \notin {"new", "gateReset"}
    /\ safetyGate' = SafetyGate_reset(clock)
    /\ ret' = [op |-> "gateReset", now |-> clock, before |-> safetyGate]
    /\ tripAt' = NoTime
    /\ steps' = steps + 1
    /\ UNCHANGED clock
    /\ GateFrame

GateNext ==
    \/ Advance
    \/ Evaluate
    \/ RecordEvent
    \/ RecordExecutionResult
    \/ RecordAnomaly
    \/ TickRecovery
    \/ GateReset

GateSpec == Init /\ [][GateNext]_vars

----------------------------------------------------------------------------
(* A Pipeline whose host reports execution results back *)

\* pipeline.recordExecution(result) or pipeline.recordExecution(result, decision)
\* with what the last process call returned
RecordExecution ==
    /\ ret.op = "process"
    /\ ~ret.threw
    /\ \E given \in BOOLEAN :
        /\ safetyGate' = Pipeline_recordExecution(safetyGate, ret.result, given,
                                                  ret.decision, clock)
        /\ ret' = [op |-> "recordExecution", now |-> clock, result |-> ret.result,
                   given |-> given, before |-> safetyGate]
        /\ UNCHANGED <<clock, activityEngine, intentCore, events, hasher, twin, steps,
                       faults, tripAt>>

HostNext ==
    \/ Process
    \/ Run
    \/ RecordExecution

HostSpec == Init /\ [][HostNext]_vars

----------------------------------------------------------------------------
(* A stand-alone SafetyGate driven in the order of Pipeline.process step 3:
   evaluate, then recordEvent, with one clock reading *)

\* the veto of the call before this one (NoVeto when it allowed)
lastVeto == IF ret.op = "new" THEN NoVeto ELSE ret.decision.vetoReason

admitted(ev, arrival, now) ==
    SafetyGate_recordEvent(ev.gate, arrival.tokensUsed, arrival.toolCalls, now)

\* decision = gate.evaluate(intent, state); gate.recordEvent(tokenCount, toolCalls)
Admit ==
    /\ steps < MaxStreamSteps
    /\ \E arrival \in StreamArrivals :
      \E ev \in {SafetyGate_evaluate(safetyGate, StreamIntent,
                                      [intensity |-> "NORMAL", mode |-> "WORKING"],
                                      clock + arrival.dt)} :
        /\ clock' = clock + arrival.dt
        /\ safetyGate' = admitted(ev, arrival, clock + arrival.dt)
        /\ ret' = [op |-> "admit", now |-> clock + arrival.dt, intent |-> StreamIntent,
                   mode |-> "WORKING", arrival |-> arrival, before |-> safetyGate,
                   waited |-> arrival.dt, since |-> lastVeto, decision |-> ev.decision]
        /\ steps' = steps + 1
        /\ UNCHANGED tripAt
        /\ GateFrame

\* gate.evaluate(intent, state) with no event recorded, dt after the previous call
Probe ==
    /\ steps < MaxStreamSteps
    /\ ret.op # "probe"
    /\ \E probe \in StreamProbes :
      \E ev \in {SafetyGate_evaluate(safetyGate, StreamIntent,
                                      [intensity |-> "NORMAL", mode |-> probe.mode],
                                      clock + probe.dt)} :
        /\ clock' = clock + probe.dt
        /\ safetyGate' = ev.gate
        /\ ret' = [op |-> "probe", now |-> clock + probe.dt, intent |-> StreamIntent,
                   mode |-> probe.mode, before |-> safetyGate,
                   waited |-> probe.dt, since |-> lastVeto, decision |-> ev.decision]
        /\ steps' = steps + 1
        /\ UNCHANGED tripAt
        /\ GateFrame

StreamNext ==
    \/ Admit
    \/ Probe

StreamSpec == Init /\ [][StreamNext]_vars

----------------------------------------------------------------------------
(* The health of a stand-alone SafetyGate *)

\* gate.recordAnomaly(severity)
Strain ==
    /\ steps < MaxHealthSteps
    /\ \E severity \in HealthSeverities :
        /\ safetyGate' = recordAnomaly(safetyGate, severity, clock)
        /\ ret' = [op |-> "recordAnomaly", now |-> clock, severity |-> severity,
                   before |-> safetyGate]
        /\ steps' = steps + 1
        /\ UNCHANGED <<clock, tripAt>>
        /\ GateFrame

\* gate.recordExecutionResult(result, decision) for an allowed decision
Report ==
    /\ steps < MaxHealthSteps
    /\ \E result \in GateResults :
        /\ safetyGate' = recordExecutionResult(safetyGate, result, [allowed |-> TRUE], clock)
        /\ ret' = [op |-> "recordExecutionResult", now |-> clock, result |-> result,
                   before |-> safetyGate]
        /\ steps' = steps + 1
        /\ UNCHANGED <<clock, tripAt>>
        /\ GateFrame

\* gate.tickRecovery(), dt after the previous call
Heal ==
    /\ steps < MaxHealthSteps
    /\ \E dt \in HealthDelays :
        /\ clock' = clock + dt
        /\ safetyGate' = tickRecovery(safetyGate, clock + dt)
        /\ ret' = [op |-> "tickRecovery", now |-> clock + dt, before |-> safetyGate]
        /\ steps' = steps + 1
        /\ UNCHANGED tripAt
        /\ GateFrame

HealthNext ==
    \/ Strain
    \/ Report
    \/ Heal

HealthSpec == Init /\ [][HealthNext]_vars

----------------------------------------------------------------------------
(* Execution results reported to a stand-alone SafetyGate *)

\* gate.recordExecutionResult(result, decision), one second after the previous call
ReportResult ==
    /\ steps < MaxReportSteps
    /\ \E result \in ExecResults, allowed \in BOOLEAN :
        /\ clock' = clock + 1000
        /\ safetyGate' = recordExecutionResult(safetyGate, result, [allowed |-> allowed],
                                               clock + 1000)
        /\ ret' = [op |-> "recordExecutionResult", now |-> clock + 1000, result |-> result,
                   allowed |-> allowed, before |-> safetyGate]
        /\ steps' = steps + 1
        /\ UNCHANGED tripAt
        /\ GateFrame

ReportNext ==
    \/ ReportResult
    \/ Strain

ReportSpec == Init /\ [][ReportNext]_vars

----------------------------------------------------------------------------
(* A Pipeline fed a stream of heavy events at a slow or a fast tempo *)

\* await pipeline.process(event), the clock reading being the event's timestamp
Burst ==
    /\ steps < MaxBurstEvents
    /\ \E gap \in BurstGaps :
      \E r \in {Pipeline_process(Self, BurstEvent(clock + gap), clock + gap, "none", "execute")} :
        /\ clock' = clock + gap
        /\ Install(r.pipeline)
        /\ ret' = [op |-> "process", now |-> clock + gap, event |-> BurstEvent(clock + gap),
                   fault |-> "none", adapter |-> "execute", logged |-> Len(events),
                   before |-> activityEngine.currentState] @@ r.out
        /\ steps' = steps + 1
        /\ UNCHANGED <<twin, faults, tripAt>>

BurstNext == Burst

BurstSpec == Init /\ [][BurstNext]_vars

----------------------------------------------------------------------------
(* A stand-alone IntentCore *)

CoreFrame == UNCHANGED <<activityEngine, safetyGate, events, hasher, twin, faults, tripAt>>

\* core.update(event)
Update ==
    /\ intentCore.lastIntent = Null
    /\ Len(intentCore.tokenHistory) < MaxCoreUpdates
    /\ \E tokens \in CoreTokens :
        /\ intentCore' = IntentCore_update(intentCore, [tokenCount |-> tokens])
        /\ ret' = [op |-> "update", now |-> clock, tokens |-> tokens]
        /\ UNCHANGED <<clock, steps>>
        /\ CoreFrame

\* the intent as it was generated: a retained intent keeps the origin of the
\* previous call
originOf(intent) == IF intent.reason[2] = 0 THEN intent ELSE ret.origin

\* core.decide(state), dt after the previous call
Decide ==
    /\ steps < MaxCoreSteps
    /\ \E dt \in CoreDelays, state \in CoreStates :
      \E ic \in {IntentCore_decide(intentCore, state, clock + dt)} :
        /\ clock' = clock + dt
        /\ intentCore' = ic
        /\ ret' = [op |-> "decide", now |-> clock + dt, state |-> state,
                   before |-> intentCore, intent |-> ic.lastIntent,
                   origin |-> originOf(ic.lastIntent)]
        /\ steps' = steps + 1
        /\ CoreFrame

CoreNext ==
    \/ Update
    \/ Decide

CoreSpec == Init /\ [][CoreNext]_vars

----------------------------------------------------------------------------
(* A Pipeline that is reset and replayed under a mocked clock: the clock is
   set back to the reading of the construction and gives the readings of
   the first run again *)

\* the events a telemetry log holds, in the order they were processed
AgentEventsOf(log) == SelectSeq(log, LAMBDA e : e.type = "AGENT_EVENT")

\* await pipeline.process(event) of the first run
FirstRun ==
    /\ ret.op \in {"new", "process"}
    /\ steps < MaxReplayEvents
    /\ \E dt \in Delays, kind \in EventKinds :
      \E r \in {Pipeline_process(Self, MakeEvent(kind, clock + dt), clock + dt,
                                 "none", "execute")} :
        /\ clock' = clock + dt
        /\ Install(r.pipeline)
        /\ ret' = [op |-> "process", now |-> clock + dt,
                   event |-> MakeEvent(kind, clock + dt), fault |-> "none",
                   adapter |-> "execute", logged |-> Len(events)] @@ r.out
        /\ steps' = steps + 1
        /\ UNCHANGED <<twin, faults, tripAt>>

\* pipeline.reset() with the clock set back; twin keeps the first run
Rewind ==
    /\ ret.op = "process"
    /\ clock' = 0
    /\ Install(Pipeline_reset(Self, 0))
    /\ twin' = [pipeline |-> Self, clock |-> clock, ret |-> ret]
    /\ ret' = [op |-> "reset", now |-> 0]
    /\ steps' = 0
    /\ UNCHANGED <<faults, tripAt>>

\* await pipeline.process(event) with the next event of the first run, at
\* the clock reading of the first run
Replay ==
    /\ ret.op \in {"reset", "replay"}
    /\ steps < Len(AgentEventsOf(twin.pipeline.events))
    /\ \E e \in {AgentEventsOf(twin.pipeline.events)[steps + 1].event} :
      \E r \in {Pipeline_process(Self, e, e.timestamp, "none", "execute")} :
        /\ clock' = e.timestamp
        /\ Install(r.pipeline)
        /\ ret' = [op |-> "replay", now |-> e.timestamp, event |-> e, fault |-> "none",
                   adapter |-> "execute", logged |-> Len(events)] @@ r.out
        /\ steps' = steps + 1
        /\ UNCHANGED <<twin, faults, tripAt>>

ReplayNext ==
    \/ FirstRun
    \/ Rewind
    \/ Replay

ReplaySpec == Init /\ [][ReplayNext]_vars

----------------------------------------------------------------------------
(* A stand-alone ActivityEngine with an injected clock *)

EngineEvent(kind, now) ==
    [timestamp |-> now - kind.lag, tokenCount |-> kind.tokenCount, toolCalls |-> 0,
     outputHash |-> kind.outputHash]

\* engine.process(event) at clock reading clock + gap; candidate is the state
\* computeState gives on the buffer this call leaves
Feed ==
    /\ steps < MaxEngineEvents
    /\ \E gap \in EngineGaps, kind \in EngineKinds :
      \E ae \in {ActivityEngine_process(activityEngine, EngineEvent(kind, clock + gap),
                                         clock + gap)} :
        /\ clock' = clock + gap
        /\ activityEngine' = ae
        /\ ret' = [op |-> "feed", now |-> clock + gap, before |-> activityEngine.currentState,
                   candidate |-> computeState(ae, "Periodic recomputation", clock + gap),
                   state |-> ae.currentState]
        /\ steps' = steps + 1
        /\ UNCHANGED <<intentCore, safetyGate, events, hasher, twin, faults, tripAt>>

EngineNext == Feed

EngineSpec == Init /\ [][EngineNext]_vars

----------------------------------------------------------------------------
(* A stand-alone ActivityEngine fed events stamped with the clock, some of
   them after a lull of more than 30 seconds *)

LullGaps == {5000, 40000}
LullTokens == {100, 20000}

\* engine.process(event) at clock reading clock + gap, the event stamped with it
FeedAfter ==
    /\ steps < MaxLullEvents
    /\ \E gap \in LullGaps, tokens \in LullTokens :
      \E ae \in {ActivityEngine_process(activityEngine,
                     [timestamp |-> clock + gap, tokenCount |-> tokens, toolCalls |-> 0,
                      outputHash |-> NoHash],
                     clock + gap)} :
        /\ clock' = clock + gap
        /\ activityEngine' = ae
        /\ ret' = [op |-> "feed", now |-> clock + gap, gap |-> gap,
                   before |-> activityEngine.currentState,
                   candidate |-> computeState(ae, "Periodic recomputation", clock + gap),
                   state |-> ae.currentState]
        /\ steps' = steps + 1
        /\ UNCHANGED <<intentCore, safetyGate, events, hasher, twin, faults, tripAt>>

LullNext == FeedAfter

LullSpec == Init /\ [][LullNext]_vars

----------------------------------------------------------------------------
(* A Pipeline whose process calls overlap: a call is started before earlier
   ones have resolved; ret.inFlight holds the calls suspended at
   await adapter.execute, each with its local variables *)

InFlight == IF ret.op = "new" THEN {} ELSE ret.inFlight

Locals(call) == [state |-> call.state, intent |-> call.intent, decision |-> call.decision]

\* pipeline.process(event) is called: the call runs to its await, or to its
\* return when the decision blocks
Begin ==
    /\ steps < MaxOverlapCalls
    /\ \E dt \in OverlapDelays, kind \in EventKinds :
      \E q \in {processSynchronously(Self, MakeEvent(kind, clock + dt), clock + dt)} :
        /\ clock' = clock + dt
        /\ steps' = steps + 1
        /\ IF suspendsOnExecute(q.decision)
           THEN /\ Install(q)
                /\ ret' = [op |-> "begin", now |-> clock + dt, call |-> steps + 1,
                           event |-> MakeEvent(kind, clock + dt), state |-> q.state,
                           intent |-> q.intent, decision |-> q.decision,
                           suspended |-> TRUE, result |-> Null,
                           inFlight |-> InFlight \cup
                               {[call |-> steps + 1, event |-> MakeEvent(kind, clock + dt),
                                 state |-> q.state, intent |-> q.intent,
                                 decision |-> q.decision]}]
           ELSE \E r \in {returned(processStage4(q, clock + dt, "execute"))} :
                /\ Install(r.pipeline)
                /\ ret' = [op |-> "begin", now |-> clock + dt, call |-> steps + 1,
                           event |-> MakeEvent(kind, clock + dt), state |-> r.out.state,
                           intent |-> r.out.intent, decision |-> r.out.decision,
                           suspended |-> FALSE, result |-> r.out.result,
                           inFlight |-> InFlight]
        /\ UNCHANGED <<twin, faults, tripAt>>

\* the adapter of a suspended call settles and the call runs to its return
Resume ==
    \E call \in InFlight, adapter \in SpecAdapters :
      \E r \in {returned(processStage4(Self @@ Locals(call), clock + AdapterLatency,
                                        adapter))} :
        /\ clock' = clock + AdapterLatency
        /\ Install(r.pipeline)
        /\ ret' = [op |-> "resume", now |-> clock + AdapterLatency, call |-> call.call,
                   event |-> call.event, state |-> r.out.state, intent |-> r.out.intent,
                   decision |-> r.out.decision, suspended |-> FALSE,
                   result |-> r.out.result, inFlight |-> InFlight \ {call}]
        /\ UNCHANGED <<twin, steps, faults, tripAt>>

OverlapNext ==
    \/ Begin
    \/ Resume

OverlapSpec == Init /\ [][OverlapNext]_vars

----------------------------------------------------------------------------
(* Two pipelines fed the same events *)

\* components shared between pipelines: the second works on what the first left
sharedComponents(own, other) == other

\* each Pipeline constructs its own components: what the second pipeline works
\* on is its own state, not the state the first pipeline has just left
ownComponents(own, other) == own

TwinFrame == UNCHANGED <<faults, tripAt>>

\* both pipelines process the same event and read the same clock
TwinProcess ==
    /\ steps < MaxEvents
    /\ \E dt \in Delays, kind \in EventKinds, adapter \in {"execute", "dummy"} :
      \E r \in {Pipeline_process(Self, MakeEvent(kind, clock + dt), clock + dt, "none", adapter)} :
        \E t \in {Pipeline_process(ownComponents(twin.pipeline, r.pipeline),
                                   MakeEvent(kind, clock + dt), clock + dt, "none", adapter)} :
          /\ clock' = clock + dt
          /\ Install(r.pipeline)
          /\ ret' = [op |-> "process", event |-> MakeEvent(kind, clock + dt)] @@ r.out
          /\ twin' = [pipeline |-> t.pipeline, clock |-> clock + dt,
                      ret |-> [op |-> "process", event |-> MakeEvent(kind, clock + dt)] @@ t.out]
          /\ steps' = steps + 1
          /\ TwinFrame

TwinNext == TwinProcess

TwinSpec == Init /\ [][TwinNext]_vars

\* both pipelines process the same event, stamped by the first pipeline's clock;
\* the second reads its own clock
SkewProcess ==
    /\ steps < MaxEvents
    /\ \E dt \in Delays, lateBy \in Delays, kind \in EventKinds :
      \E r \in {Pipeline_process(Self, MakeEvent(kind, clock + dt), clock + dt, "none", "execute")} :
        \E t \in {Pipeline_process(ownComponents(twin.pipeline, r.pipeline),
                                   MakeEvent(kind, clock + dt), twin.clock + lateBy,
                                   "none", "execute")} :
          /\ clock' = clock + dt
          /\ Install(r.pipeline)
          /\ ret' = [op |-> "process", event |-> MakeEvent(kind, clock + dt)] @@ r.out
          /\ twin' = [pipeline |-> t.pipeline, clock |-> twin.clock + lateBy,
                      ret |-> [op |-> "process", event |-> MakeEvent(kind, clock + dt)] @@ t.out]
          /\ steps' = steps + 1
          /\ TwinFrame

SkewNext == SkewProcess

SkewSpec == Init /\ [][SkewNext]_vars

----------------------------------------------------------------------------
(* Properties of Pipeline.process (Spec) *)

Processed == ret.op = "process" /\ ~ret.threw

\* the telemetry records the last process call appended
RecordsOfCall == SubSeq(events, ret.logged + 1, Len(events))

ErrorComponents(records) ==
    {records[i].component : i \in {j \in 1..Len(records) : records[j].type = "ERROR"}}

\* C1: the adapter is called only for a decision with allowed = true; a vetoed
\* event gets the synthetic result {executed = false, status = BLOCKED} without
\* the adapter being called; a result with executed = true belongs to an
\* allowed decision.
AdapterOnlyWhenAllowed ==
    Processed =>
        /\ ret.adapterCalled => ret.decision.allowed
        /\ ~ret.decision.allowed =>
              /\ ~ret.adapterCalled
              /\ ~ret.result.executed
              /\ ret.result.status = "BLOCKED"
        /\ ret.result.executed => ret.decision.allowed

\* C1: a vetoed event, after an event that was executed
VetoedEventBlocked ==
    /\ Processed
    /\ ~ret.decision.allowed
    /\ ret.decision.vetoReason # NoVeto
    /\ ret.result.status = "BLOCKED"
    /\ ~ret.adapterCalled
    /\ \E i \in 1..Len(events) : events[i].type = "EXECUTION" /\ events[i].result.executed

\* C3: when the intent for an event is PAUSE or STOP, its decision has
\* allowed = false and the adapter is not called.
PauseOrStopBlocks ==
    (Processed /\ ret.intent.intent \in {"PAUSE", "STOP"}) =>
        ~ret.decision.allowed /\ ~ret.adapterCalled

\* C9: when the classifier throws, process continues with the state
\* (HIGH, RUNAWAY), the decision is allowed = false and an ERROR record with
\* component ActivityEngine is emitted, whichever event the fault occurs on.
ClassifierFaultIsDefensive ==
    (Processed /\ ret.fault = "ActivityEngine") =>
        /\ ret.state.intensity = "HIGH"
        /\ ret.state.mode = "RUNAWAY"
        /\ ~ret.decision.allowed
        /\ "ActivityEngine" \in ErrorComponents(RecordsOfCall)

\* C10: a fault in the classifier, the intent core, the gate or the adapter
\* never makes process fail: the call returns a complete {state, intent,
\* decision, result} tuple, the ERROR records of the call name exactly the
\* faulting components, an adapter exception yields {executed = false,
\* status = FAILED}, and a call without fault emits no ERROR record.
FaultsAreContained ==
    (ret.op = "process" /\ ~hasher.finalized) =>
        /\ ~ret.threw
        /\ ret.state.mode \in {"IDLE", "WORKING", "LOOPING", "RUNAWAY"}
        /\ ret.intent.intent \in {"CONTINUE", "PAUSE", "STOP"}
        /\ ret.decision.allowed \in BOOLEAN
        /\ ret.result.status \in {"SUCCESS", "PARTIAL", "FAILED", "BLOCKED"}
        /\ ErrorComponents(RecordsOfCall)
             = ({ret.fault} \ {"none"})
               \cup (IF ret.adapter = "throw" THEN {"ExecutionAdapter"} ELSE {})
        /\ ret.adapter = "throw" => ~ret.result.executed /\ ret.result.status = "FAILED"
        /\ ret.fault = "SafetyGate" => ~ret.decision.allowed

\* C10: an event processed and executed without fault after an earlier call
\* in which a component threw
ProcessedNormallyAfterFault ==
    /\ Processed
    /\ faults = 1
    /\ ret.fault = "none"
    /\ ret.adapter = "execute"
    /\ ErrorComponents(events) # {}
    /\ ErrorComponents(RecordsOfCall) = {}
    /\ ret.result.executed

----------------------------------------------------------------------------
(* Properties of SafetyGate (GateSpec) *)

Evaluated == ret.op = "evaluate"

\* C2: evaluate never returns allowed = true when the mode is RUNAWAY or
\* LOOPING, in any gate state and for any intent.
NeverAllowsCriticalMode ==
    (Evaluated /\ ret.mode \in CriticalModes) => ~ret.decision.allowed

\* C2: a LOOPING state presented to a gate that has no other reason to veto
LoopingVetoed ==
    /\ Evaluated
    /\ ret.mode = "LOOPING"
    /\ ret.intent.intent = "CONTINUE"
    /\ ret.before.cooldownUntil = NoTime
    /\ ret.before.health.status = "HEALTHY"
    /\ ret.before.budget.tokensUsed = 0
    /\ ret.decision.vetoReason = "LOOP_DETECTED"

\* the gate as the checks of the last evaluate call saw it
GateChecked == resetBudgetWindowIfNeeded(ret.before, ret.now)

\* the first tag, in the documented priority order, whose condition held at
\* the last evaluate call
DocumentedVeto ==
    IF ret.mode = "RUNAWAY" THEN "RUNAWAY_DETECTED"
    ELSE IF ret.mode = "LOOPING" THEN "LOOP_DETECTED"
    ELSE IF GateChecked.budget.tokensUsed >= MAX_TOKENS_PER_MINUTE THEN "TOKEN_BUDGET_EXCEEDED"
    ELSE IF \/ GateChecked.budget.toolCalls >= MAX_TOOL_CALLS_PER_MINUTE
            \/ isTempoCompressing(GateChecked)
         THEN "RATE_LIMIT_EXCEEDED"
    ELSE IF GateChecked.cooldownUntil # NoTime /\ ret.now < GateChecked.cooldownUntil
         THEN "COOLDOWN_ACTIVE"
    ELSE IF \/ ret.intent.confidence < CONFIDENCE_MINIMUM
            \/ GateChecked.health.status \in {"SUSPENDED", "STOPPED"}
         THEN "HEALTH_DEGRADED"
    ELSE NoVeto

\* C6: when several veto conditions hold at one evaluate call, the vetoReason
\* is the first of them in the order RUNAWAY_DETECTED, LOOP_DETECTED,
\* TOKEN_BUDGET_EXCEEDED, RATE_LIMIT_EXCEEDED, COOLDOWN_ACTIVE, HEALTH_DEGRADED.
VetoFollowsDocumentedPriority ==
    Evaluated => ret.decision.vetoReason = DocumentedVeto

----------------------------------------------------------------------------
(* Properties of ActivityEngine (EngineSpec) *)

CriticalExitMs == MIN_STATE_DURATION_MS * CRITICAL_EXIT_MULTIPLIER

\* C8: once the current state is LOOPING or RUNAWAY with since = T, every
\* process call at a clock time earlier than T + 30 000 returns a state whose
\* mode is still critical, whatever event is fed.
CriticalModeHeld ==
    (/\ ret.op = "feed"
     /\ ret.before # Null
     /\ ret.before.mode \in CriticalModes
     /\ ret.now < ret.before.since + CriticalExitMs)
    => ret.state.mode \in CriticalModes

\* C8: a call past the minimum state duration whose candidate is not critical
\* and which returns the critical state unchanged
HeldAgainstCandidate ==
    /\ ret.op = "feed"
    /\ ret.before # Null
    /\ ret.before.mode \in CriticalModes
    /\ ret.now >= ret.before.since + MIN_STATE_DURATION_MS
    /\ ret.now < ret.before.since + CriticalExitMs
    /\ ret.candidate.mode \notin CriticalModes
    /\ ret.state = ret.before

\* the hash window is full and every hash in it is the same
SameHashWindow ==
    /\ Len(activityEngine.outputHashes) = LOOP_WINDOW_SIZE
    /\ \A i \in 1..Len(activityEngine.outputHashes) :
          activityEngine.outputHashes[i] = activityEngine.outputHashes[1]

\* C22: once LOOP_WINDOW_SIZE equal output hashes are buffered, the candidate
\* mode of every process call is LOOPING (and the classifier reports LOOPING
\* as soon as hysteresis allows the transition).
SameHashesAreLooping ==
    (ret.op = "feed" /\ SameHashWindow) => ret.candidate.mode = "LOOPING"

\* C30: the classifier replaces its state only when at least
\* MIN_STATE_DURATION_MS of clock time has passed since the state's since: an
\* earlier call returns the state unchanged, with the same since, and a
\* call that replaces the state stamps the new state with its clock reading,
\* so two successive changes are at least MIN_STATE_DURATION_MS apart.
StateHeldForMinDuration ==
    ret.op = "feed" /\ ret.before # Null =>
        /\ ret.now - ret.before.since < MIN_STATE_DURATION_MS => ret.state = ret.before
        /\ ret.state # ret.before =>
              /\ ret.state.since = ret.now
              /\ ret.state.since - ret.before.since >= MIN_STATE_DURATION_MS

\* C30: a call made before the minimum duration had passed computed a state
\* of another mode and returned the state it had
EarlyCandidateNotAdopted ==
    /\ ret.op = "feed"
    /\ ret.before # Null
    /\ ret.now - ret.before.since < MIN_STATE_DURATION_MS
    /\ ret.candidate.mode # ret.before.mode
    /\ ret.state = ret.before

\* the intervals between the timestamps of the buffered events
BufferedIntervals ==
    [i \in 1..(Len(activityEngine.eventBuffer) - 1) |->
        activityEngine.eventBuffer[i + 1].timestamp - activityEngine.eventBuffer[i].timestamp]

\* the last call replaced the state by one of mode RUNAWAY
AdoptedRunaway ==
    /\ ret.op = "feed"
    /\ ret.state.mode = "RUNAWAY"
    /\ ret.state # ret.before

\* all buffered intervals are the same, the buffer holding the whole stream
ConstantIntervals ==
    /\ Len(activityEngine.eventBuffer) < EVENT_BUFFER_SIZE
    /\ \A i, j \in 1..(Len(activityEngine.eventBuffer) - 1) :
          BufferedIntervals[i] = BufferedIntervals[j]

\* C32: the classifier adopts mode RUNAWAY only at a call that leaves at
\* least 6 buffered events, with candidate intensity HIGH and the mean of
\* the last 3 intervals below TEMPO_COMPRESSION_RATIO times the mean of the
\* earlier buffered intervals; a stream of constant intervals is never
\* classified RUNAWAY.
RunawayOnlyWhenCompressed ==
    /\ AdoptedRunaway =>
          /\ Len(activityEngine.eventBuffer) >= 6
          /\ ret.state.intensity = "HIGH"
          /\ ret.candidate.intensity = "HIGH"
          /\ SumSeq(LastN(BufferedIntervals, 3)) * (Len(BufferedIntervals) - 3)
                 * TEMPO_RATIO_DEN
               < SumSeq(DropLastN(BufferedIntervals, 3)) * TEMPO_RATIO_NUM * 3
    /\ ret.op = "feed" /\ ConstantIntervals => ret.state.mode # "RUNAWAY"

\* C32: a call on a classifier in mode WORKING adopted RUNAWAY, leaving a
\* buffer of at least 6 events
RunawayAdoptedOnCompression ==
    /\ AdoptedRunaway
    /\ ret.before # Null
    /\ ret.before.mode = "WORKING"
    /\ Len(activityEngine.eventBuffer) >= 6

----------------------------------------------------------------------------
(* Properties of two pipelines (TwinSpec, SkewSpec) *)

SameDecisionsAtAnyTime ==
    ret.op = "process" =>
        /\ twin.ret.intent.intent = ret.intent.intent
        /\ twin.ret.decision.allowed = ret.decision.allowed

----------------------------------------------------------------------------
(* Properties of the decisions Pipeline.process returns (Spec) *)

VetoTags ==
    {"RUNAWAY_DETECTED", "LOOP_DETECTED", "TOKEN_BUDGET_EXCEEDED", "RATE_LIMIT_EXCEEDED",
     "COOLDOWN_ACTIVE", "HEALTH_DEGRADED"}

\* C11: every decision with allowed = false returned by process carries a
\* vetoReason tag or the reason "SafetyGate error"; every rejection that
\* SafetyGate.evaluate produced (the gate stage did not throw) carries a
\* vetoReason tag and the reason "Veto: <tag>".
RejectionsAreTagged ==
    (Processed /\ ~ret.decision.allowed) =>
        /\ ret.decision.vetoReason \in VetoTags \/ ret.decision.reason[1] = "SafetyGate error"
        /\ ret.fault # "SafetyGate" =>
              /\ ret.decision.vetoReason \in VetoTags
              /\ ret.decision.reason = <<"Veto: ", ret.decision.vetoReason>>

\* C11: a rejection substituted for a gate that threw, after a rejection the
\* gate produced itself
UntaggedErrorRejection ==
    /\ Processed
    /\ ret.fault = "SafetyGate"
    /\ ~ret.decision.allowed
    /\ ret.decision.vetoReason = NoVeto
    /\ ret.decision.reason[1] = "SafetyGate error"
    /\ \E i \in 1..Len(events) :
          /\ events[i].type = "INTENT"
          /\ ~events[i].decision.allowed
          /\ events[i].decision.vetoReason \in VetoTags

\* C16: while the health status is SUSPENDED or STOPPED every evaluate call
\* returns allowed = false, for any intent and activity state.
UnhealthyGateRejects ==
    (Evaluated /\ ret.before.health.status \in {"SUSPENDED", "STOPPED"}) =>
        /\ ~ret.decision.allowed
        /\ ret.decision.vetoReason # NoVeto

\* C16: a SUSPENDED gate with no other reason to veto rejects with
\* HEALTH_DEGRADED
SuspendedGateRejects ==
    /\ Evaluated
    /\ ret.before.health.status = "SUSPENDED"
    /\ ret.intent.intent = "CONTINUE"
    /\ ret.intent.confidence >= CONFIDENCE_MINIMUM
    /\ ret.mode = "WORKING"
    /\ ret.before.cooldownUntil = NoTime
    /\ ret.before.budget.tokensUsed = 0
    /\ ret.decision.vetoReason = "HEALTH_DEGRADED"

\* the budget window had expired when the last call was made
WindowExpired == ret.now - ret.before.budget.windowStart >= 60000

\* C14: an evaluate or recordEvent call made 60000 ms or more after
\* windowStart first resets the window to (0, 0, now), and leaves it untouched
\* when less time has elapsed (recordEvent then adds its own counts); an
\* evaluate on an expired window is allowed whenever no condition other than
\* the budget counters stands against it.
WindowResetsOnExpiry ==
    /\ Evaluated =>
          /\ safetyGate.budget =
                IF WindowExpired
                THEN [tokensUsed |-> 0, toolCalls |-> 0, windowStart |-> ret.now]
                ELSE ret.before.budget
          /\ ( /\ WindowExpired
               /\ ret.intent.confidence >= CONFIDENCE_MINIMUM
               /\ ~(ret.before.cooldownUntil # NoTime /\ ret.now < ret.before.cooldownUntil)
               /\ ret.before.health.status \notin {"SUSPENDED", "STOPPED"}
               /\ ret.mode \notin CriticalModes
               /\ ~isTempoCompressing(ret.before) ) => ret.decision.allowed
    /\ ret.op = "recordEvent" =>
          safetyGate.budget =
              IF WindowExpired
              THEN [tokensUsed |-> ret.load.tokensUsed, toolCalls |-> ret.load.toolCalls,
                    windowStart |-> ret.now]
              ELSE [tokensUsed |-> ret.before.budget.tokensUsed + ret.load.tokensUsed,
                    toolCalls |-> ret.before.budget.toolCalls + ret.load.toolCalls,
                    windowStart |-> ret.before.budget.windowStart]

\* C14: a gate whose only veto condition was the exhausted token budget
\* allows once the window has expired
AllowedAfterWindowExpired ==
    /\ Evaluated
    /\ WindowExpired
    /\ ret.before.budget.tokensUsed >= MAX_TOKENS_PER_MINUTE
    /\ ret.before.lastEventTimestamp # NoTime
    /\ SafetyGate_evaluate(ret.before, ret.intent, [intensity |-> "NORMAL", mode |-> ret.mode],
                           ret.before.lastEventTimestamp).decision.vetoReason
          = "TOKEN_BUDGET_EXCEEDED"
    /\ ret.decision.allowed
    /\ safetyGate.budget = [tokensUsed |-> 0, toolCalls |-> 0, windowStart |-> ret.now]

\* no decision logged in the gate's current budget window was a rejection
NoVetoInWindow ==
    \A i \in 1..Len(events) :
        (events[i].type = "INTENT" /\ events[i].decision.timestamp >= safetyGate.budget.windowStart)
            => events[i].decision.allowed

----------------------------------------------------------------------------
(* Properties of a gate fed an event stream (StreamSpec) *)

Streamed == ret.op \in {"admit", "probe"}

\* no veto condition other than the token budget held at the last evaluate call
NoOtherVeto ==
    /\ ret.intent.confidence >= CONFIDENCE_MINIMUM
    /\ ~(ret.before.cooldownUntil # NoTime /\ ret.now < ret.before.cooldownUntil)
    /\ ret.before.health.status \notin {"SUSPENDED", "STOPPED"}
    /\ ret.mode \notin CriticalModes
    /\ ~isTempoCompressing(ret.before)
    /\ GateChecked.budget.toolCalls < MAX_TOOL_CALLS_PER_MINUTE

\* the last call was an evaluate made 60000 ms or more after a call that
\* rejected for cooldown, token budget or rate, with a non-critical mode,
\* sufficient confidence and a HEALTHY status, no event recorded in between
ProbedAfterWait ==
    /\ ret.op = "probe"
    /\ ret.waited >= 60000
    /\ ret.since \in {"COOLDOWN_ACTIVE", "TOKEN_BUDGET_EXCEEDED", "RATE_LIMIT_EXCEEDED"}
    /\ ret.mode \notin CriticalModes
    /\ ret.intent.confidence >= CONFIDENCE_MINIMUM
    /\ ret.before.health.status = "HEALTHY"

\* C15 (as stated): a veto for cooldown, token budget or rate (tool-call cap
\* or tempo compression) clears by the passage of time alone: an evaluate
\* made at least 60000 ms after the rejection, with no event recorded since,
\* a non-critical mode, sufficient confidence and a HEALTHY status, allows.
TimedVetoesClear == ProbedAfterWait => ret.decision.allowed

\* C15 (amended): such an evaluate allows exactly when the recorded
\* intervals are not tempo-compressing; cooldown, token budget and tool-call
\* cap have cleared, but tempo compression has not and the call still
\* rejects with RATE_LIMIT_EXCEEDED.
TimedVetoesClearButTempo ==
    ProbedAfterWait =>
        IF isTempoCompressing(ret.before)
        THEN ret.decision.vetoReason = "RATE_LIMIT_EXCEEDED"
        ELSE ret.decision.allowed

\* C15: a cooldown, an exhausted token budget and a reached tool-call cap
\* that rejected have each cleared 60000 ms later
VetoClearedByTime ==
    /\ ProbedAfterWait
    /\ ret.decision.allowed
    /\ \/ ret.since = "COOLDOWN_ACTIVE"
       \/ ret.since = "TOKEN_BUDGET_EXCEEDED" /\ ret.before.budget.tokensUsed >= MAX_TOKENS_PER_MINUTE
       \/ ret.since = "RATE_LIMIT_EXCEEDED"
              /\ ret.before.budget.toolCalls >= MAX_TOOL_CALLS_PER_MINUTE

\* C12: when no other veto condition holds, evaluate allows exactly while the
\* tokens recorded in the current window are below MAX_TOKENS_PER_MINUTE and
\* rejects with TOKEN_BUDGET_EXCEEDED otherwise; so after five 10000-token
\* events one second apart the sixth is the first one rejected.
TokenBudgetEnforced ==
    (Streamed /\ NoOtherVeto) =>
        IF GateChecked.budget.tokensUsed < MAX_TOKENS_PER_MINUTE
        THEN ret.decision.allowed
        ELSE ret.decision.vetoReason = "TOKEN_BUDGET_EXCEEDED"

\* C12: the sixth 10000-token event, one second after the fifth, is rejected
SixthEventVetoed ==
    /\ ret.op = "admit"
    /\ ret.now = 6000
    /\ ret.before.budget = [tokensUsed |-> 50000, toolCalls |-> 5, windowStart |-> 0]
    /\ ret.before.intervals = <<1000, 1000, 1000, 1000>>
    /\ ret.arrival.tokensUsed = 10000
    /\ NoOtherVeto
    /\ ~ret.decision.allowed
    /\ ret.decision.vetoReason = "TOKEN_BUDGET_EXCEEDED"

----------------------------------------------------------------------------
(* Properties of the gate's health (HealthSpec) *)

HealthOps == {"recordAnomaly", "recordExecutionResult", "tickRecovery"}

\* C17: once the health status is STOPPED it stays STOPPED under every gate
\* operation other than reset().
StoppedStaysStopped ==
    (ret.op \in HealthOps /\ ret.before.health.status = "STOPPED") =>
        safetyGate.health.status = "STOPPED"

\* the last call was a tickRecovery that did not return early
TickTookEffect ==
    /\ ret.op = "tickRecovery"
    /\ ~(ret.before.health.lastAnomaly # NoTime
         /\ ret.now - ret.before.health.lastAnomaly < 60000)

\* C18 (as stated): in every reachable state with anomalyCount >= 1 the
\* health score is at most RECOVERY_CAP, and in every reachable state the
\* score lies in [0, 1.0].
ScoreCappedAfterAnomaly ==
    /\ safetyGate.health.anomalyCount >= 1 => safetyGate.health.score <= RECOVERY_CAP
    /\ safetyGate.health.score >= 0
    /\ safetyGate.health.score <= INITIAL_SCORE

\* C18 (amended): the score lies in [0, 1.0] in every reachable state; once
\* an anomaly has been recorded it is below 1.0; and it is at most
\* RECOVERY_CAP after every tickRecovery that took effect.  Between an
\* anomaly and the next effective tick it may lie above RECOVERY_CAP.
ScoreNeverFullyHeals ==
    /\ safetyGate.health.score >= 0
    /\ safetyGate.health.score <= INITIAL_SCORE
    /\ safetyGate.health.anomalyCount >= 1 => safetyGate.health.score < INITIAL_SCORE
    /\ TickTookEffect => safetyGate.health.score <= RECOVERY_CAP

\* C18: anomalies recorded and the score still above RECOVERY_CAP, and a
\* later effective tick that brought it to the cap
AnomalyAboveCap ==
    /\ TickTookEffect
    /\ ret.before.health.anomalyCount >= 1
    /\ ret.before.health.score > RECOVERY_CAP
    /\ ret.before.health.score < INITIAL_SCORE
    /\ safetyGate.health.score = RECOVERY_CAP

\* C19: recordAnomaly leaves the health score lower or equal, and
\* tickRecovery leaves it higher or equal, than it was before the call.
ScoreMovesMonotonically ==
    /\ ret.op = "recordAnomaly" => safetyGate.health.score <= ret.before.health.score
    /\ ret.op = "tickRecovery" => safetyGate.health.score >= ret.before.health.score

----------------------------------------------------------------------------
(* Properties of a Pipeline with host feedback (HostSpec) *)

----------------------------------------------------------------------------
(* Properties of recordExecutionResult (ReportSpec) *)

Reported == ret.op = "recordExecutionResult"

\* the anomalies the documented rules give for the last reported result
SoftAnomaliesDue ==
    (IF ret.result.executed /\ ret.result.latencyMs > 10000 THEN 1 ELSE 0)
    + (IF ret.result.executed /\ ret.result.status = "PARTIAL" THEN 1 ELSE 0)

HardAnomaliesDue == IF ~ret.result.executed /\ ret.allowed THEN 1 ELSE 0

\* C21: recordExecutionResult records one SOFT anomaly for an executed
\* result with latencyMs > 10000, one further SOFT anomaly for an executed
\* PARTIAL result, one HARD anomaly for a result not executed after an
\* allowed decision, and leaves the health unchanged in every other case.
ExecutionResultAnomalies ==
    Reported =>
        IF SoftAnomaliesDue + HardAnomaliesDue = 0
        THEN safetyGate = ret.before
        ELSE /\ safetyGate.health.anomalyCount
                  = ret.before.health.anomalyCount + SoftAnomaliesDue + HardAnomaliesDue
             /\ safetyGate.health.errorStreak
                  = ret.before.health.errorStreak + SoftAnomaliesDue + HardAnomaliesDue
             /\ safetyGate.health.lastAnomaly = ret.now
             /\ safetyGate.health.score
                  = Max(0, ret.before.health.score
                           - SoftAnomaliesDue * SOFT_ANOMALY_SEVERITY
                           - HardAnomaliesDue * HARD_ANOMALY_SEVERITY)
             /\ safetyGate.health.status = deriveHealthStatus(safetyGate.health.score)
             /\ safetyGate.budget = ret.before.budget

\* C21: a slow PARTIAL execution has counted two soft anomalies on a gate
\* that held one hard anomaly
TwoSoftAnomaliesRecorded ==
    /\ Reported
    /\ ret.result = [executed |-> TRUE, status |-> "PARTIAL", latencyMs |-> 20000]
    /\ ret.before.health.anomalyCount = 1
    /\ ret.before.health.score = INITIAL_SCORE - HARD_ANOMALY_SEVERITY
    /\ safetyGate.health.anomalyCount = 3
    /\ safetyGate.health.score
          = INITIAL_SCORE - HARD_ANOMALY_SEVERITY - 2 * SOFT_ANOMALY_SEVERITY

----------------------------------------------------------------------------
(* Properties of a Pipeline under a burst of events (BurstSpec) *)

\* the timestamps of the events processed so far
Arrivals == {events[i].event.timestamp : i \in {j \in 1..Len(events) : events[j].type = "AGENT_EVENT"}}

\* five events 5 s apart followed by five events 500 ms apart have been processed
ScriptedBurst ==
    /\ steps = 10
    /\ Arrivals = {5000, 10000, 15000, 20000, 25000, 25500, 26000, 26500, 27000, 27500}

\* the decision logged at time t was a RUNAWAY_DETECTED rejection
VetoedRunawayAt(t) ==
    \E i \in 1..Len(events) :
        /\ events[i].type = "INTENT"
        /\ events[i].decision.timestamp = t
        /\ ~events[i].decision.allowed
        /\ events[i].decision.vetoReason = "RUNAWAY_DETECTED"

\* C23: five events 5 s apart followed by five events 500 ms apart, each of
\* 5000 tokens and stamped with the clock, leave the classifier in mode
\* RUNAWAY; the gate rejected the first RUNAWAY state with RUNAWAY_DETECTED
\* and entered the cooldown at that call.
BurstEndsInRunaway ==
    ScriptedBurst =>
        /\ activityEngine.currentState.mode = "RUNAWAY"
        /\ VetoedRunawayAt(activityEngine.currentState.since)
        /\ safetyGate.cooldownUntil = activityEngine.currentState.since + COOLDOWN_DURATION_MS

\* C23: the burst has been processed; the classifier has been in RUNAWAY
\* since the eighth event and the gate is in its cooldown
BurstProcessed ==
    /\ ScriptedBurst
    /\ activityEngine.currentState.mode = "RUNAWAY"
    /\ activityEngine.currentState.since = 26500
    /\ safetyGate.cooldownUntil = 86500
    /\ ret.decision.vetoReason = "COOLDOWN_ACTIVE"

\* C35: in every reachable gate state the health status is the one derived
\* from the health score: STOPPED below 0.3, SUSPENDED from 0.3 to below 0.6,
\* DEGRADED from 0.6 to below 0.8, HEALTHY from 0.8.
StatusFollowsScore ==
    /\ safetyGate.health.score < 30 <=> safetyGate.health.status = "STOPPED"
    /\ (safetyGate.health.score >= 30 /\ safetyGate.health.score < 60)
          <=> safetyGate.health.status = "SUSPENDED"
    /\ (safetyGate.health.score >= 60 /\ safetyGate.health.score < 80)
          <=> safetyGate.health.status = "DEGRADED"
    /\ safetyGate.health.score >= 80 <=> safetyGate.health.status = "HEALTHY"

\* C35: a recovery tick raised the score of a STOPPED gate to 0.3 and the
\* status became SUSPENDED
RecoveredIntoSuspended ==
    /\ ret.op = "tickRecovery"
    /\ ret.before.health.status = "STOPPED"
    /\ safetyGate.health.score = 30
    /\ safetyGate.health.status = "SUSPENDED"

\* the last call on the gate was an evaluate that returned RUNAWAY_DETECTED
\* or LOOP_DETECTED
Tripped ==
    /\ ret.op = "evaluate"
    /\ ret.decision.vetoReason \in {"RUNAWAY_DETECTED", "LOOP_DETECTED"}

\* C39: cooldownUntil changes only in an evaluate call that returns
\* RUNAWAY_DETECTED or LOOP_DETECTED (to the call's clock reading plus
\* COOLDOWN_DURATION_MS) and in reset(); every other veto, an evaluate
\* rejected by the system precheck, recordEvent, recordAnomaly,
\* recordExecutionResult and tickRecovery leave it as it was.
CooldownChangesOnlyOnTrip ==
    ret.op # "new" =>
        IF Tripped
        THEN safetyGate.cooldownUntil = ret.now + COOLDOWN_DURATION_MS
        ELSE IF ret.op = "gateReset"
        THEN safetyGate.cooldownUntil = NoTime
        ELSE safetyGate.cooldownUntil = ret.before.cooldownUntil

\* C39: an evaluate for mode RUNAWAY during an active cooldown was rejected
\* with COOLDOWN_ACTIVE and left the end of the cooldown where it was
PrecheckLeavesCooldown ==
    /\ ret.op = "evaluate"
    /\ ret.mode = "RUNAWAY"
    /\ ret.decision.vetoReason = "COOLDOWN_ACTIVE"
    /\ ret.before.cooldownUntil > ret.now
    /\ ret.before.cooldownUntil < ret.now + COOLDOWN_DURATION_MS
    /\ safetyGate.cooldownUntil = ret.before.cooldownUntil

----------------------------------------------------------------------------
(* Properties of IntentCore (CoreSpec) *)

Decided == ret.op = "decide"

\* the confidence the stored intent had left at the last decide call
DecayedConfidence ==
    Max(0, ret.before.lastIntent.confidence
             - (ret.now - ret.before.lastIntent.timestamp) * CONFIDENCE_DECAY_PER_MS)

\* the last decide call had to generate a new intent
Generating ==
    \/ ret.before.lastIntent = Null
    \/ ret.before.lastIntent.intent = "PAUSE"
    \/ DecayedConfidence = 0

\* C24 (as stated): whenever the state passed to decide has mode RUNAWAY the
\* returned intent is STOP, whatever the stored intent was.
RunawayForcesStop ==
    (Decided /\ ret.state.mode = "RUNAWAY") => ret.intent.intent = "STOP"

\* C24 (amended): on a RUNAWAY state decide never returns CONTINUE: it
\* returns STOP with confidence 1.0 when it generates a new intent, PAUSE
\* with confidence 0.5 when it invalidates a stored CONTINUE or a stored STOP
\* still above 0.5 under HIGH intensity, and the stored STOP otherwise.
RunawayNeverContinues ==
    (Decided /\ ret.state.mode = "RUNAWAY") =>
        /\ ret.intent.intent \in {"STOP", "PAUSE"}
        /\ Generating => ret.intent.intent = "STOP" /\ ret.intent.confidence = ConfUnit
        /\ (~Generating /\ ret.before.lastIntent.intent = "CONTINUE") =>
              ret.intent.intent = "PAUSE" /\ ret.intent.confidence = 5000000
        /\ ret.intent.intent = "PAUSE" => ~Generating

\* C24: a RUNAWAY state met a stored CONTINUE and the call returned PAUSE
RunawayInvalidatesContinue ==
    /\ Decided
    /\ ret.state.mode = "RUNAWAY"
    /\ ret.before.lastIntent # Null
    /\ ret.before.lastIntent.intent = "CONTINUE"
    /\ ret.intent.intent = "PAUSE"
    /\ intentCore.lastIntent = ret.intent

\* C25: whenever decide generates a new intent (no stored intent, stored
\* PAUSE, or decayed confidence 0) the result follows the fixed priority:
\* RUNAWAY gives (STOP, 1.0); else LOOPING gives (STOP, 0.9); else HIGH
\* intensity gives (PAUSE, 0.7); else IDLE gives (CONTINUE, 0.3); otherwise
\* CONTINUE with a confidence within [0.1, 1.0]; the intent is stamped with
\* the time of the call and stored as lastIntent.
GeneratedByPriority ==
    (Decided /\ Generating) =>
        /\ intentCore.lastIntent = ret.intent
        /\ ret.intent.timestamp = ret.now
        /\ IF ret.state.mode = "RUNAWAY"
           THEN ret.intent.intent = "STOP" /\ ret.intent.confidence = ConfUnit
           ELSE IF ret.state.mode = "LOOPING"
           THEN ret.intent.intent = "STOP" /\ ret.intent.confidence = 9000000
           ELSE IF ret.state.intensity = "HIGH"
           THEN ret.intent.intent = "PAUSE" /\ ret.intent.confidence = 7000000
           ELSE IF ret.state.mode = "IDLE"
           THEN ret.intent.intent = "CONTINUE" /\ ret.intent.confidence = 3000000
           ELSE /\ ret.intent.intent = "CONTINUE"
                /\ ret.intent.confidence >= 1000000
                /\ ret.intent.confidence <= ConfUnit

\* C25: a stored intent whose confidence had decayed to 0 was replaced by a
\* CONTINUE whose confidence the rising token trend lowered
RegeneratedAfterDecay ==
    /\ Decided
    /\ ret.before.lastIntent # Null
    /\ ret.before.lastIntent.intent # "PAUSE"
    /\ DecayedConfidence = 0
    /\ ret.state = [intensity |-> "NORMAL", mode |-> "WORKING"]
    /\ ret.intent.intent = "CONTINUE"
    /\ ret.intent.confidence = 4200000
    /\ ret.intent.timestamp = ret.now

\* the last decide call returned the stored intent, decayed
Retained == Decided /\ ret.intent.reason[2] > 0

\* C26: a retained intent loses confidence linearly: the confidence returned
\* at time t is max(0, c0 - rate * (t - t0)), c0 and t0 being the confidence
\* and timestamp with which the intent was generated, however many decide
\* calls were made in between.
DecayIsLinear ==
    Retained =>
        /\ ret.intent.timestamp = ret.origin.timestamp
        /\ ret.intent.confidence
              = Max(0, ret.origin.confidence
                         - (ret.now - ret.origin.timestamp) * CONFIDENCE_DECAY_PER_MS)

\* the state of the last decide call invalidates the stored intent
Invalidating ==
    \/ /\ ret.before.lastIntent.intent = "CONTINUE"
       /\ ret.state.mode \in {"RUNAWAY", "LOOPING"}
    \/ /\ ret.state.intensity = "HIGH"
       /\ DecayedConfidence > 5000000

\* C33: when decide finds a stored non-PAUSE intent with positive decayed
\* confidence, it returns and stores a fresh PAUSE with confidence 0.5 if the
\* stored intent is CONTINUE and the mode is RUNAWAY or LOOPING, or if the
\* intensity is HIGH and the decayed confidence exceeds 0.5; otherwise it
\* returns and stores the stored intent with its kind and timestamp and the
\* decayed confidence, whatever the priority rules give for the new state.
StoredIntentInvalidatedOrKept ==
    (Decided /\ ~Generating) =>
        /\ intentCore.lastIntent = ret.intent
        /\ IF Invalidating
           THEN ret.intent = [intent |-> "PAUSE", confidence |-> 5000000,
                              reason |-> <<"Invalidated: activity mode critical", 0>>,
                              timestamp |-> ret.now]
           ELSE /\ ret.intent.intent = ret.before.lastIntent.intent
                /\ ret.intent.confidence = DecayedConfidence
                /\ ret.intent.timestamp = ret.before.lastIntent.timestamp
                /\ ret.intent.reason[2] = ret.before.lastIntent.reason[2] + 1

\* C33: a stored STOP was returned, decayed, for a LOW / WORKING state, for
\* which the priority rules give CONTINUE
StoredStopKeptWhileWorking ==
    /\ Decided
    /\ ~Generating
    /\ ret.before.lastIntent.intent = "STOP"
    /\ ret.state = [intensity |-> "LOW", mode |-> "WORKING"]
    /\ ret.intent.intent = "STOP"
    /\ ret.intent.confidence < ret.before.lastIntent.confidence

\* C38: decide never returns CONTINUE for a state of mode RUNAWAY or
\* LOOPING, whatever intent is stored and however much time has passed: it
\* returns STOP or PAUSE.
CriticalModeNeverContinues ==
    (Decided /\ ret.state.mode \in {"RUNAWAY", "LOOPING"}) =>
        /\ ret.intent.intent \in {"STOP", "PAUSE"}
        /\ intentCore.lastIntent.intent # "CONTINUE"

\* C38: a LOOPING state of NORMAL intensity met a stored CONTINUE with
\* confidence left, and the call returned PAUSE
LoopingInvalidatesContinue ==
    /\ Decided
    /\ ret.state = [intensity |-> "NORMAL", mode |-> "LOOPING"]
    /\ ret.before.lastIntent # Null
    /\ ret.before.lastIntent.intent = "CONTINUE"
    /\ DecayedConfidence > 0
    /\ ret.intent.intent = "PAUSE"

----------------------------------------------------------------------------
(* Properties of reset() and replay (ReplaySpec) *)

\* the replay has processed every event of the first run
Replayed ==
    /\ ret.op = "replay"
    /\ steps = Len(AgentEventsOf(twin.pipeline.events))

\* C27: reset() returns every core component to its initial state, and
\* replaying the events of the first run under the same clock readings
\* logs the same records (states, intents, decisions, results) and folds the
\* same fingerprint as the first run.
ResetThenReplayAgrees ==
    /\ ret.op = "reset" =>
          /\ activityEngine = [currentState |-> Null, eventBuffer |-> <<>>,
                               outputHashes |-> <<>>]
          /\ intentCore = [lastIntent |-> Null, tokenHistory |-> <<>>]
          /\ safetyGate.budget = [tokensUsed |-> 0, toolCalls |-> 0, windowStart |-> ret.now]
          /\ safetyGate.intervals = <<>>
          /\ safetyGate.lastEventTimestamp = NoTime
          /\ safetyGate.cooldownUntil = NoTime
          /\ safetyGate.health = [score |-> INITIAL_SCORE, status |-> "HEALTHY",
                                  lastAnomaly |-> NoTime, anomalyCount |-> 0,
                                  errorStreak |-> 0]
          /\ events = <<>>
          /\ hasher = [data |-> <<>>, finalized |-> FALSE]
    /\ ret.op = "replay" =>
          /\ Len(events) <= Len(twin.pipeline.events)
          /\ events = SubSeq(twin.pipeline.events, 1, Len(events))
          /\ Len(hasher.data) <= Len(twin.pipeline.hasher.data)
          /\ hasher.data = SubSeq(twin.pipeline.hasher.data, 1, Len(hasher.data))
    /\ Replayed =>
          /\ events = twin.pipeline.events
          /\ hasher = twin.pipeline.hasher
          /\ ret.decision = twin.ret.decision
          /\ ret.intent = twin.ret.intent
          /\ ret.state = twin.ret.state

\* C27: a first run that ended in a rejection by a gate with a spent budget
\* has been replayed to its end after reset()
ReplayedToTheEnd ==
    /\ Replayed
    /\ steps = MaxReplayEvents
    /\ ~ret.decision.allowed
    /\ twin.pipeline.safetyGate.budget.tokensUsed > 0
    /\ twin.pipeline.intentCore.lastIntent # Null
    /\ hasher = twin.pipeline.hasher

----------------------------------------------------------------------------
(* Properties of the order of telemetry and of the fingerprint (Spec) *)

\* the types of a list of telemetry records, in order
RecordTypes(records) == [i \in 1..Len(records) |-> records[i].type]

\* the records each stage of the last process call may log
Stage1Records ==
    IF ret.fault = "ActivityEngine" THEN {<<"ERROR">>} ELSE {<<>>, <<"STATE_CHANGE">>}

Stage2Records == IF ret.fault = "IntentCore" THEN {<<"ERROR">>} ELSE {<<>>}

Stage3Records == IF ret.fault = "SafetyGate" THEN {<<"ERROR">>} ELSE {<<"INTENT">>}

Stage4Records == IF ret.result.status = "FAILED" THEN {<<"ERROR">>} ELSE {<<"EXECUTION">>}

\* the component whose fault the last process call caught in steps 1 to 3
FaultedComponents == IF ret.fault = "none" THEN {} ELSE {ret.fault}

\* the adapter, when the last process call caught its exception
FailedAdapter == IF ret.result.status = "FAILED" THEN {"ExecutionAdapter"} ELSE {}

\* C28: a process call logs AGENT_EVENT, optional STATE_CHANGE, INTENT,
\* EXECUTION and an optional ERROR, in this order and nothing else.
TelemetryInStrictOrder ==
    Processed =>
        RecordTypes(RecordsOfCall) \in
            {<<"AGENT_EVENT", "INTENT", "EXECUTION">>,
             <<"AGENT_EVENT", "STATE_CHANGE", "INTENT", "EXECUTION">>,
             <<"AGENT_EVENT", "INTENT", "EXECUTION", "ERROR">>,
             <<"AGENT_EVENT", "STATE_CHANGE", "INTENT", "EXECUTION", "ERROR">>}

\* C28: a process call logs the records of its stages in the order of the
\* stages: AGENT_EVENT for its event first, then STATE_CHANGE (optional) or
\* the classifier's ERROR, then the intent core's ERROR if it faulted, then
\* INTENT or in its place the gate's ERROR, then EXECUTION or in its place
\* the adapter's ERROR; the ERROR records name the faulting components and
\* the log holds one AGENT_EVENT record per call.
TelemetryFollowsStages ==
    Processed =>
        /\ RecordTypes(RecordsOfCall) \in
              {<<"AGENT_EVENT">> \o a \o b \o c \o d :
                  a \in Stage1Records, b \in Stage2Records,
                  c \in Stage3Records, d \in Stage4Records}
        /\ RecordsOfCall[1].event = ret.event
        /\ ErrorComponents(RecordsOfCall) = FaultedComponents \cup FailedAdapter

\* C28: a call after earlier ones whose classifier faulted logged ERROR
\* before INTENT and EXECUTION
ErrorLoggedBeforeIntent ==
    /\ Processed
    /\ RecordTypes(RecordsOfCall) = <<"AGENT_EVENT", "ERROR", "INTENT", "EXECUTION">>
    /\ Len(events) > Len(RecordsOfCall)

\* the last n records folded into the fingerprint
LastFolded(n) == SubSeq(hasher.data, Len(hasher.data) - n + 1, Len(hasher.data))

\* C29: a process call folds exactly four records into the fingerprint, in
\* the order event, intent, decision, result, holding the event it was given
\* and the intent, decision and result it returns, synthetic ones included.
FingerprintFoldsEveryOutput ==
    Processed =>
        /\ Len(hasher.data) >= 4
        /\ LastFolded(4) = <<[type |-> "event", data |-> ret.event],
                             [type |-> "intent", data |-> ret.intent],
                             [type |-> "decision", data |-> ret.decision],
                             [type |-> "result", data |-> ret.result]>>

----------------------------------------------------------------------------
(* Properties of the classifier after a lull (LullSpec) *)

\* the hysteresis of the state the last call found lets a state of another
\* mode or intensity replace it
HysteresisPermits ==
    /\ ret.before # Null
    /\ ret.now - ret.before.since >= MIN_STATE_DURATION_MS
    /\ ret.before.mode \in CriticalModes =>
          ret.now - ret.before.since >= MIN_STATE_DURATION_MS * CRITICAL_EXIT_MULTIPLIER

\* C31: an event stamped with the clock and processed more than 30 000 ms
\* after the previous event, with hysteresis permitting a transition, is
\* answered with mode IDLE.
IdleAfterLull ==
    ret.op = "feed" /\ ret.gap > 30000 /\ HysteresisPermits => ret.state.mode = "IDLE"

\* the budget window evaluate and recordEvent work on at clock reading now
WindowAt(budget, now) ==
    IF now - budget.windowStart >= 60000
    THEN [tokensUsed |-> 0, toolCalls |-> 0, windowStart |-> now]
    ELSE budget

\* C34: in process the gate evaluates an event before recording it: the
\* decision is computed from the counters and intervals the gate held before
\* the call, the event excluded, and the event's tokenCount and toolCalls are
\* then added to the current window, whether the decision allows or vetoes.
EvaluatesBeforeRecording ==
    [][(ret'.op = "process" /\ ~ret'.threw /\ ret'.fault # "SafetyGate") =>
          /\ ret'.decision.remainingBudget
                = Max(0, MAX_TOKENS_PER_MINUTE
                           - WindowAt(safetyGate.budget, ret'.now).tokensUsed)
          /\ ret'.decision.vetoReason = "TOKEN_BUDGET_EXCEEDED" =>
                WindowAt(safetyGate.budget, ret'.now).tokensUsed >= MAX_TOKENS_PER_MINUTE
          /\ ret'.decision.allowed =>
                /\ WindowAt(safetyGate.budget, ret'.now).tokensUsed < MAX_TOKENS_PER_MINUTE
                /\ WindowAt(safetyGate.budget, ret'.now).toolCalls < MAX_TOOL_CALLS_PER_MINUTE
                /\ ~isTempoCompressing(safetyGate)
          /\ safetyGate'.budget.tokensUsed
                = WindowAt(safetyGate.budget, ret'.now).tokensUsed + ret'.event.tokenCount
          /\ safetyGate'.budget.toolCalls
                = WindowAt(safetyGate.budget, ret'.now).toolCalls + ret'.event.toolCalls
          /\ safetyGate'.intervals
                = IF safetyGate.lastEventTimestamp = NoTime THEN safetyGate.intervals
                  ELSE Append(safetyGate.intervals, ret'.now - safetyGate.lastEventTimestamp)
          /\ safetyGate'.lastEventTimestamp = ret'.now]_vars

\* C34: a vetoed event was added to a window that held earlier events, the
\* decision showing the budget that was left before it
VetoedEventStillCounted ==
    /\ Processed
    /\ ret.fault = "none"
    /\ ~ret.decision.allowed
    /\ ret.event.tokenCount > 0
    /\ ret.decision.remainingBudget > 0
    /\ ret.decision.remainingBudget < MAX_TOKENS_PER_MINUTE
    /\ safetyGate.budget.tokensUsed
          = MAX_TOKENS_PER_MINUTE - ret.decision.remainingBudget + ret.event.tokenCount

RunFinalizesFingerprint ==
    [][/\ (steps' > steps /\ ret'.op = "run" /\ ~ret'.threw) => hasher'.finalized
       /\ (/\ hasher.finalized
           /\ steps' > steps
           /\ \/ ret'.op = "process"
              \/ ret'.op = "run" /\ ret'.list # <<>>)
          => /\ ret'.threw
             /\ UNCHANGED <<activityEngine, intentCore, safetyGate, events, hasher>>
       /\ (steps' > steps /\ ret'.op = "reset") => ~hasher'.finalized
       /\ (~hasher.finalized /\ steps' > steps /\ ret'.op = "process") => ~ret'.threw
      ]_vars

\* C40: a process() call threw on a pipeline whose run() over an event had
\* finalized the fingerprint
ProcessThrewAfterRun ==
    /\ ret.op = "process"
    /\ ret.threw
    /\ hasher.finalized
    /\ Len(events) > 0

----------------------------------------------------------------------------
(* Properties of overlapping process calls (OverlapSpec) *)

\* the fold at position i is an event followed at once by the intent and the
\* decision computed for it
FoldedContiguously(i) ==
    /\ i + 2 <= Len(hasher.data)
    /\ hasher.data[i + 1].type = "intent"
    /\ hasher.data[i + 2].type = "decision"
    /\ hasher.data[i + 2].data.timestamp = hasher.data[i].data.timestamp

\* the event and the decision of the last call were folded as one run
OwnDecisionFolded ==
    \E i \in 1..Len(hasher.data) :
        /\ hasher.data[i] = [type |-> "event", data |-> ret.event]
        /\ FoldedContiguously(i)
        /\ hasher.data[i + 2].data = ret.decision

\* what holds of a pipeline between the steps of overlapping calls
StagesAtomic ==
    /\ \A call \in InFlight : call.decision.allowed
    /\ \A i \in 1..Len(hasher.data) :
          hasher.data[i].type = "event" => FoldedContiguously(i)
    /\ ret.op \in {"begin", "resume"} =>
          /\ OwnDecisionFolded
          /\ ret.suspended <=> ret.result = Null
          /\ ret.suspended => ret.decision.allowed
          /\ ret.op = "resume" => ret.decision.allowed
          /\ (~ret.suspended /\ ret.result.status # "BLOCKED") => ret.decision.allowed
          /\ (~ret.suspended /\ ret.result.status # "FAILED") =>
                hasher.data[Len(hasher.data)] = [type |-> "result", data |-> ret.result]

\* C36: when process calls overlap, a call is suspended only at the await on
\* adapter.execute for an allowed decision: the classifier, intent and gate
\* stages of a call run as one step, the event, intent and decision records
\* of an event are folded contiguously, a resuming call changes no component
\* and works with its own allowed decision.
OverlapKeepsStagesAtomic ==
    [][/\ StagesAtomic'
       /\ ret'.op = "resume" => UNCHANGED <<activityEngine, intentCore, safetyGate>>
       /\ (ret'.op = "begin" /\ steps' > steps) =>
             /\ Len(hasher'.data) >= Len(hasher.data) + 3
             /\ SubSeq(hasher'.data, Len(hasher.data) + 1, Len(hasher.data) + 3)
                   = <<[type |-> "event", data |-> ret'.event],
                       [type |-> "intent", data |-> ret'.intent],
                       [type |-> "decision", data |-> ret'.decision]>>
      ]_vars

\* C36: the first call resumed after two later calls had run their stages,
\* one of them still suspended, and its result was folded after their records
ResumedAfterLaterCalls ==
    /\ ret.op = "resume"
    /\ ret.call = 1
    /\ steps = MaxOverlapCalls
    /\ ret.result.executed
    /\ \E c \in ret.inFlight : c.call = MaxOverlapCalls
    /\ hasher.data[Len(hasher.data)] = [type |-> "result", data |-> ret.result]
    /\ hasher.data[Len(hasher.data) - 1].type = "decision"

====
